---- MODULE Spec2Model ----
(***************************************************************************)
(* ADC Threat: the threat classification engine of the web app (app.js)    *)
(* and of the overlay (ThreatAnalyzer), as state machines whose inputs are *)
(* drawn in the initial state and whose actions are the calls.             *)
(*                                                                         *)
(* JavaScript values: an object is a record that has exactly the fields    *)
(* the code sets (a field the code leaves out is absent from the DOMAIN),  *)
(* an array is a sequence, a string is a string, null is the record Null.  *)
(***************************************************************************)
EXTENDS Integers, Sequences, FiniteSets, TLC

VARIABLES
    pc,                     \* position of the call in progress
    threatTags,             \* classifyThreatTags: its argument
    matchedClassifications, \* classifyThreatTags: the array it returns
    spell,                  \* classifyCC / classifyAbility: the spell
    summaryData,            \* classifyAbility / analyzeThreats: curated summary of the champion
    abilityIndex,           \* classifyAbility: index of the ability (1 = Q .. 4 = R)
    allowFallbackCC,        \* classifyAbility: the fallback flag
    hasAbilitySummary,      \* classifyAbility: local
    classifications,        \* classifyAbility: local, then the array returned
    descClassification,     \* classifyCC's return value
    ccCalls,                \* number of calls of classifyCC made by the call in progress
    app,                    \* champion level: "web" (analyzeThreats) or "overlay" (analyzeChampion)
    champion,               \* champion level: the champion (its role tags)
    spells,                 \* champion level: detail.spells
    i,                      \* champion level: index of the next ability of the forEach
    threats,                \* champion level: local array, then the array returned
    seenTypes,              \* champion level: local Set of labels
    producer,               \* which producer of classification records is called
    championAbilities,      \* OverlayController.getChampionAbilities: the array it returns
    rawData,                \* SecurityUtils.sanitizeObject: its argument obj
    sanitized,              \* SecurityUtils.sanitizeObject: the value it returns
    assignedKeys,           \* SecurityUtils.sanitizeObject: the keys it has assigned under
    isLocked,               \* OverlayController: this.isLocked
    isDragging,             \* OverlayController: this.isDragging
    isResizing,             \* OverlayController: this.isResizing
    dragOffset,             \* OverlayController: this.dragOffset
    settings,               \* OverlayController: this.settings
    resizeListeners,        \* number of bound onResize / stopResize listeners on the document
    pendingDrag,            \* getCurrentWindow callbacks of onDrag not yet run: their deltas
    pendingResize,          \* getCurrentWindow callbacks of onResize not yet run: their events
    lastWindowCall,         \* the last changePosition / changeSize issued, and isLocked then
    storedValue,            \* overwolf.settings.extension: the value under adc_threat_settings
    getSucceeds,            \* StorageService.getSettings: result.success of the get
    resolved,               \* StorageService.getSettings: the settings its promise resolves to
    overlayWindow,          \* BackgroundController: this.overlayWindow
    isGameRunning,          \* BackgroundController: this.isGameRunning
    isInChampSelect,        \* BackgroundController: this.isInChampSelect
    currentGamePhase,       \* BackgroundController: this.currentGamePhase
    currentPhase,           \* LCUService: this.currentPhase
    tasks,                  \* the async calls of the background in flight, each at its await
    overlayState,           \* the overlay window held by Overwolf: closed, hidden or normal
    overlayBounds,          \* its position and size, once changePosition / changeSize set them
    lastMessage,            \* the last message sent to the overlay window
    lastSet,                \* the last opacity saved by a hotkey: the hotkey, the stored
                            \* opacity before the save and after it
    lastOpen,               \* what last restored the overlay window: hotkey, launch or phase
    eventsLeft,             \* events (hotkeys, game events) still to arrive
    maxRequests,            \* createRateLimiter: its argument maxRequests
    windowMs,               \* createRateLimiter: its argument windowMs
    requests,               \* createRateLimiter: the array requests of the closure
    clock,                  \* Date.now()
    allowedAt,              \* the clock values of the calls of isAllowed that returned true
    lastAllowed,            \* the last call of isAllowed: its clock value, what it returned, and the calls
                            \* allowed in its window before it
    callsLeft,              \* calls of isAllowed still to come
    sessionData,            \* sanitizeChampSelectData: its argument data
    champSelect,            \* sanitizeChampSelectData: what the call returned, or that it threw
    credentials,            \* LCUService: this.credentials
    isConnected,            \* LCUService: this.isConnected
    ws,                     \* LCUService: this.ws, the socket it refers to
    reconnectAttempts,      \* LCUService: this.reconnectAttempts
    pollingInterval,        \* LCUService: this.pollingInterval
    currentSession,         \* LCUService: this.currentSession
    sockets,                \* the WebSocket objects made by connectWebSocket: their readyState
    connects,               \* the calls of connect() in flight, each at its await
    reconnectTimers,        \* timers of scheduleReconnect not yet fired
    disconnected,           \* the last call of the owner was disconnect()
    scheduledSinceConnected,\* timers scheduled since the construction or the last successful connect
    ownerCallsLeft          \* calls of connect() and disconnect() the owner still makes

vars == <<pc, threatTags, matchedClassifications, spell, summaryData, abilityIndex,
          allowFallbackCC, hasAbilitySummary, classifications, descClassification,
          ccCalls, app, champion, spells, i, threats, seenTypes,
          producer, championAbilities, rawData, sanitized, assignedKeys,
          isLocked, isDragging, isResizing, dragOffset, settings, resizeListeners,
          pendingDrag, pendingResize, lastWindowCall,
          storedValue, getSucceeds, resolved,
          overlayWindow, isGameRunning, isInChampSelect, currentGamePhase, currentPhase,
          tasks, overlayState, overlayBounds, lastMessage, lastSet, lastOpen, eventsLeft,
          maxRequests, windowMs, requests, clock, allowedAt, lastAllowed, callsLeft,
          sessionData, champSelect,
          credentials, isConnected, ws, reconnectAttempts, pollingInterval, currentSession, sockets, connects, reconnectTimers, disconnected, scheduledSinceConnected, ownerCallsLeft>>

tagVars == <<threatTags, matchedClassifications>>
abilityVars == <<spell, summaryData, abilityIndex, allowFallbackCC, hasAbilitySummary,
                 classifications, descClassification, ccCalls>>
championVars == <<app, champion, spells, i, threats, seenTypes>>
classifierVars == <<tagVars, abilityVars, championVars>>
badgeVars == <<producer, championAbilities>>

sanitizeVars == <<rawData, sanitized, assignedKeys>>

overlayVars == <<isLocked, isDragging, isResizing, dragOffset, settings, resizeListeners,
                 pendingDrag, pendingResize, lastWindowCall>>

storageVars == <<storedValue, getSucceeds, resolved>>

backgroundVars == <<overlayWindow, isGameRunning, isInChampSelect, currentGamePhase,
                    currentPhase, tasks, overlayState, overlayBounds, lastMessage, lastSet,
                    lastOpen, eventsLeft>>

limiterVars == <<maxRequests, windowMs, requests, clock, allowedAt, lastAllowed, callsLeft>>

champSelectVars == <<sessionData, champSelect>>

lcuVars == <<credentials, isConnected, ws, reconnectAttempts, pollingInterval, currentSession, sockets, connects, reconnectTimers, disconnected, scheduledSinceConnected, ownerCallsLeft>>

\* the variables of the services around the classifiers
serviceVars == <<badgeVars, sanitizeVars, overlayVars, storageVars, backgroundVars, limiterVars, champSelectVars, lcuVars>>

\* every variable but pc and those of one service
exceptBadge == <<classifierVars, sanitizeVars, overlayVars, storageVars, backgroundVars, limiterVars, champSelectVars, lcuVars>>
exceptSanitize == <<classifierVars, badgeVars, overlayVars, storageVars, backgroundVars, limiterVars, champSelectVars, lcuVars>>
exceptOverlay == <<classifierVars, badgeVars, sanitizeVars, storageVars, backgroundVars, limiterVars, champSelectVars, lcuVars>>
exceptStorage == <<classifierVars, badgeVars, sanitizeVars, overlayVars, backgroundVars, limiterVars, champSelectVars, lcuVars>>

\* every variable but pc, the stored value and those of the background controller
exceptBackground == <<classifierVars, badgeVars, sanitizeVars, overlayVars, getSucceeds, resolved, limiterVars, champSelectVars, lcuVars>>
exceptLimiter == <<classifierVars, badgeVars, sanitizeVars, overlayVars, storageVars, backgroundVars, champSelectVars, lcuVars>>
exceptChampSelect == <<classifierVars, badgeVars, sanitizeVars, overlayVars, storageVars, backgroundVars, limiterVars, lcuVars>>

\* the variables of the background controller alone, and every variable but pc and
\* those of the LCU service, whose currentPhase the controller specification shares
controllerVars == <<overlayWindow, isGameRunning, isInChampSelect, currentGamePhase, tasks,
                    overlayState, overlayBounds, lastMessage, lastSet, lastOpen, eventsLeft>>
exceptLcu == <<classifierVars, badgeVars, sanitizeVars, overlayVars, storageVars, controllerVars,
               limiterVars, champSelectVars>>

-----------------------------------------------------------------------------
(* JavaScript values *)

Null == [null |-> TRUE]
IsNull(v) == v = Null

\* a variable that the call in progress does not use
Unused == "unused"

\* the services around the classifiers are not in use
IdleBadge == producer = Unused /\ championAbilities = Unused
IdleSanitize == rawData = Unused /\ sanitized = Unused /\ assignedKeys = Unused
IdleOverlay ==
    /\ isLocked = Unused /\ isDragging = Unused /\ isResizing = Unused
    /\ dragOffset = Unused /\ settings = Unused /\ resizeListeners = 0
    /\ pendingDrag = Unused /\ pendingResize = Unused /\ lastWindowCall = Unused
IdleStorage == storedValue = Unused /\ getSucceeds = Unused /\ resolved = Unused
IdleBackground ==
    /\ overlayWindow = Unused /\ isGameRunning = Unused /\ isInChampSelect = Unused
    /\ currentGamePhase = Unused /\ currentPhase = Unused /\ tasks = Unused
    /\ overlayState = Unused /\ overlayBounds = Unused /\ lastMessage = Unused
    /\ lastSet = Unused /\ lastOpen = Unused /\ eventsLeft = 0
IdleLimiter ==
    /\ maxRequests = 0 /\ windowMs = 0 /\ requests = Unused /\ clock = 0
    /\ allowedAt = Unused /\ lastAllowed = Unused /\ callsLeft = 0
IdleChampSelect ==
    sessionData = Unused /\ champSelect = Unused
IdleController ==
    /\ overlayWindow = Unused /\ isGameRunning = Unused /\ isInChampSelect = Unused
    /\ currentGamePhase = Unused /\ tasks = Unused
    /\ overlayState = Unused /\ overlayBounds = Unused /\ lastMessage = Unused
    /\ lastSet = Unused /\ lastOpen = Unused /\ eventsLeft = 0
IdleLcu ==
    /\ credentials = Unused /\ isConnected = Unused /\ ws = Unused
    /\ reconnectAttempts = 0 /\ pollingInterval = Unused /\ currentSession = Unused
    /\ sockets = Unused /\ connects = Unused /\ reconnectTimers = 0
    /\ disconnected = Unused /\ scheduledSinceConnected = 0 /\ ownerCallsLeft = 0
IdleServices == IdleBadge /\ IdleSanitize /\ IdleOverlay /\ IdleStorage /\ IdleBackground /\ IdleLimiter /\ IdleChampSelect /\ IdleLcu

\* Array.prototype.includes
includes(arr, v) == \E k \in 1..Len(arr) : arr[k] = v

\* the elements of an array
Range(arr) == {arr[k] : k \in 1..Len(arr)}

\* all arrays over S of length at most n
SeqsUpTo(S, n) == UNION {[1..k -> S] : k \in 0..n}

-----------------------------------------------------------------------------
(* app.js: classifyThreatTags *)

\* the cleansability table of classifyThreatTags, keyed by threat tag
ccClassifications == [
    KNOCKUP          |-> [type |-> "hard", ccType |-> "Knockup", cleansable |-> FALSE, qssOnly |-> FALSE, color |-> "hard"],
    KNOCKBACK        |-> [type |-> "hard", ccType |-> "Knockback", cleansable |-> FALSE, qssOnly |-> FALSE, color |-> "hard"],
    PULL             |-> [type |-> "hard", ccType |-> "Pull", cleansable |-> FALSE, qssOnly |-> FALSE, color |-> "hard"],
    SUPPRESSION      |-> [type |-> "suppression", ccType |-> "Suppression", cleansable |-> FALSE, qssOnly |-> TRUE, color |-> "hard"],
    NEARSIGHT        |-> [type |-> "hard", ccType |-> "Nearsight", cleansable |-> FALSE, qssOnly |-> FALSE, color |-> "hard"],
    STUN             |-> [type |-> "hard", ccType |-> "Stun", cleansable |-> TRUE, color |-> "hard"],
    ROOT             |-> [type |-> "hard", ccType |-> "Root", cleansable |-> TRUE, color |-> "hard"],
    SNARE            |-> [type |-> "hard", ccType |-> "Root", cleansable |-> TRUE, color |-> "hard"],
    SLEEP            |-> [type |-> "hard", ccType |-> "Sleep", cleansable |-> TRUE, color |-> "hard"],
    CHARM            |-> [type |-> "hard", ccType |-> "Charm", cleansable |-> TRUE, color |-> "hard"],
    FEAR             |-> [type |-> "hard", ccType |-> "Fear", cleansable |-> TRUE, color |-> "hard"],
    TAUNT            |-> [type |-> "hard", ccType |-> "Taunt", cleansable |-> TRUE, color |-> "hard"],
    POLYMORPH        |-> [type |-> "hard", ccType |-> "Polymorph", cleansable |-> TRUE, color |-> "hard"],
    SLOW             |-> [type |-> "soft", ccType |-> "Slow", cleansable |-> TRUE, color |-> "soft"],
    SILENCE          |-> [type |-> "soft", ccType |-> "Silence", cleansable |-> TRUE, color |-> "soft"],
    BLIND            |-> [type |-> "soft", ccType |-> "Blind", cleansable |-> TRUE, color |-> "soft"],
    DISARM           |-> [type |-> "soft", ccType |-> "Disarm", cleansable |-> TRUE, color |-> "soft"],
    GROUNDED         |-> [type |-> "soft", ccType |-> "Grounded", cleansable |-> TRUE, color |-> "soft"],
    CRIPPLE          |-> [type |-> "soft", ccType |-> "Cripple", cleansable |-> TRUE, color |-> "soft"],
    GAP_CLOSE        |-> [type |-> "high", ccType |-> "Mobility", cleansable |-> FALSE, color |-> "high"],
    DASH             |-> [type |-> "high", ccType |-> "Dash", cleansable |-> FALSE, color |-> "high"],
    STEALTH          |-> [type |-> "high", ccType |-> "Stealth", cleansable |-> FALSE, color |-> "high"],
    DODGE            |-> [type |-> "high", ccType |-> "Dodge", cleansable |-> FALSE, color |-> "high"],
    PROJECTILE_BLOCK |-> [type |-> "high", ccType |-> "Projectile Block", cleansable |-> FALSE, color |-> "high"],
    UNBREAKABLE_WALL |-> [type |-> "high", ccType |-> "Unbreakable Wall", cleansable |-> FALSE, color |-> "high"],
    BURST            |-> [type |-> "high", ccType |-> "Burst", cleansable |-> FALSE, color |-> "high"],
    SHIELD_PEEL      |-> [type |-> "medium", ccType |-> "Shield", cleansable |-> FALSE, color |-> "medium"],
    SHIELD           |-> [type |-> "medium", ccType |-> "Shield", cleansable |-> FALSE, color |-> "medium"],
    BREAKABLE_WALL   |-> [type |-> "medium", ccType |-> "Breakable Wall", cleansable |-> FALSE, color |-> "medium"],
    REVEAL           |-> [type |-> "medium", ccType |-> "Reveal", cleansable |-> FALSE, color |-> "medium"],
    SUSTAIN          |-> [type |-> "low", ccType |-> "Sustain", cleansable |-> FALSE, color |-> "low"],
    GHOST            |-> [type |-> "low", ccType |-> "Ghost", cleansable |-> FALSE, color |-> "low"]
]

\* the priority list of classifyThreatTags, as the source writes it
priorityOrder == <<
    "SUPPRESSION", "NEARSIGHT",
    "KNOCKUP", "KNOCKBACK", "PULL",
    "STUN", "ROOT", "SNARE", "CHARM", "FEAR", "TAUNT", "SLEEP", "POLYMORPH",
    "SILENCE", "BLIND", "DISARM", "GROUNDED", "CRIPPLE", "SLOW",
    "DODGE", "PROJECTILE_BLOCK", "UNBREAKABLE_WALL", "STEALTH", "GAP_CLOSE", "DASH",
    "BREAKABLE_WALL", "REVEAL", "SHIELD_PEEL", "SHIELD",
    "SUSTAIN", "GHOST"
>>

\* ccClassifications[ccType]: the entry, or undefined for a key the table lacks
Undefined == [undefined |-> TRUE]
TableEntry(table, key) == IF key \in DOMAIN table THEN table[key] ELSE Undefined

\* the for loop of classifyThreatTags over the list `order`, from index k on
RECURSIVE MatchFrom(_, _, _)
MatchFrom(order, tags, k) ==
    IF k > Len(order) THEN <<>>
    ELSE IF includes(tags, order[k])
         THEN <<TableEntry(ccClassifications, order[k])>> \o MatchFrom(order, tags, k + 1)
         ELSE MatchFrom(order, tags, k + 1)

\* mutant: the matches are collected in the order of the argument
classifyThreatTags_InputOrder(tags) ==
    IF Len(tags) = 0 THEN <<>>
    ELSE LET known == SelectSeq(tags, LAMBDA t : includes(priorityOrder, t))
         IN  [k \in 1..Len(known) |-> TableEntry(ccClassifications, known[k])]

classifyThreatTags(tags) ==
    IF Len(tags) = 0 THEN <<>> ELSE MatchFrom(priorityOrder, tags, 1)

-----------------------------------------------------------------------------
(* app.js: classifyCC, the keyword cascade over the spell's description *)

\* String.prototype.includes: needle is a substring of s
strIncludes(s, needle) ==
    \E k \in 1..(Len(s) + 1 - Len(needle)) : SubSeq(s, k, k + Len(needle) - 1) = needle

UpperCaseLetters == "ABCDEFGHIJKLMNOPQRSTUVWXYZ"
LowerCaseLetters == "abcdefghijklmnopqrstuvwxyz"

\* the lower-case form of the one-character string c
toLowerChar(c) ==
    IF \E k \in 1..Len(UpperCaseLetters) : SubSeq(UpperCaseLetters, k, k) = c
    THEN LET k == CHOOSE k \in 1..Len(UpperCaseLetters) : SubSeq(UpperCaseLetters, k, k) = c
         IN  SubSeq(LowerCaseLetters, k, k)
    ELSE c

\* String.prototype.toLowerCase
RECURSIVE toLowerCase(_)
toLowerCase(s) ==
    IF Len(s) = 0 THEN ""
    ELSE toLowerChar(SubSeq(s, 1, 1)) \o toLowerCase(SubSeq(s, 2, Len(s)))

\* spell.description?.toLowerCase() || ''   (and the same for spell.name)
LowerField(obj, field) ==
    IF field \in DOMAIN obj THEN toLowerCase(obj[field]) ELSE ""

\* mutant: the stun keyword is looked for before the suppression keyword
classifyText_StunFirst(desc, name) ==
    IF strIncludes(desc, "stun")
    THEN [type |-> "soft", ccType |-> "Stun", cleansable |-> TRUE, color |-> "soft"]
    ELSE IF strIncludes(desc, "suppress") \/ strIncludes(desc, "suppression")
    THEN [type |-> "suppression", ccType |-> "Suppression", cleansable |-> FALSE,
          qssOnly |-> TRUE, color |-> "hard"]
    ELSE Null

\* the value classifyCC returns for the lower-cased description desc and name name
classifyText(desc, name) ==
    IF strIncludes(desc, "suppress") \/ strIncludes(desc, "suppression")
    THEN [type |-> "suppression", ccType |-> "Suppression", cleansable |-> FALSE,
          qssOnly |-> TRUE, color |-> "hard"]
    ELSE IF strIncludes(desc, "knock") \/ strIncludes(desc, "airborne") \/ strIncludes(name, "knock")
    THEN [type |-> "hard", ccType |-> "Airborne", cleansable |-> FALSE, color |-> "hard",
          note |-> "Partial - disabling can be removed, not movement"]
    ELSE IF strIncludes(desc, "pull") \/ strIncludes(desc, "drag")
    THEN [type |-> "hard", ccType |-> "Pull", cleansable |-> FALSE, color |-> "hard",
          note |-> "Partial - disabling can be removed, not movement"]
    ELSE IF strIncludes(desc, "nearsight") \/ strIncludes(desc, "blind zone")
    THEN [type |-> "hard", ccType |-> "Nearsight", cleansable |-> FALSE, color |-> "hard"]
    ELSE IF strIncludes(desc, "stun")
    THEN [type |-> "soft", ccType |-> "Stun", cleansable |-> TRUE, color |-> "soft"]
    ELSE IF strIncludes(desc, "root") \/ strIncludes(desc, "immobilize") \/ strIncludes(desc, "snare")
    THEN [type |-> "soft", ccType |-> "Root", cleansable |-> TRUE, color |-> "soft"]
    ELSE IF strIncludes(desc, "slow")
    THEN [type |-> "soft", ccType |-> "Slow", cleansable |-> TRUE, color |-> "soft"]
    ELSE IF strIncludes(desc, "charm")
    THEN [type |-> "soft", ccType |-> "Charm", cleansable |-> TRUE, color |-> "soft"]
    ELSE IF strIncludes(desc, "fear") \/ strIncludes(desc, "flee")
    THEN [type |-> "soft", ccType |-> "Fear", cleansable |-> TRUE, color |-> "soft"]
    ELSE IF strIncludes(desc, "taunt")
    THEN [type |-> "soft", ccType |-> "Taunt", cleansable |-> TRUE, color |-> "soft"]
    ELSE IF strIncludes(desc, "silence")
    THEN [type |-> "soft", ccType |-> "Silence", cleansable |-> TRUE, color |-> "soft"]
    ELSE IF strIncludes(desc, "blind")
    THEN [type |-> "soft", ccType |-> "Blind", cleansable |-> TRUE, color |-> "soft"]
    ELSE IF strIncludes(desc, "disarm")
    THEN [type |-> "soft", ccType |-> "Disarm", cleansable |-> TRUE, color |-> "soft"]
    ELSE IF strIncludes(desc, "cripple")
            \/ (strIncludes(desc, "attack speed") /\ strIncludes(desc, "reduc"))
    THEN [type |-> "soft", ccType |-> "Cripple", cleansable |-> TRUE, color |-> "soft"]
    ELSE IF strIncludes(desc, "sleep") \/ strIncludes(desc, "drowsy")
    THEN [type |-> "soft", ccType |-> "Sleep", cleansable |-> TRUE, color |-> "soft"]
    ELSE IF strIncludes(desc, "dash") \/ strIncludes(desc, "blink") \/ strIncludes(desc, "leap")
            \/ strIncludes(name, "dash") \/ strIncludes(name, "leap")
    THEN [type |-> "high", ccType |-> "Mobility", cleansable |-> FALSE, color |-> "high"]
    ELSE IF strIncludes(desc, "burst")
            \/ (strIncludes(desc, "damage") /\ strIncludes(desc, "bonus"))
            \/ strIncludes(desc, "maximum health") \/ strIncludes(desc, "missing health")
    THEN [type |-> "high", ccType |-> "Burst", cleansable |-> FALSE, color |-> "high"]
    ELSE IF strIncludes(desc, "stealth") \/ strIncludes(desc, "invisible")
            \/ strIncludes(desc, "camouflage")
    THEN [type |-> "high", ccType |-> "Stealth", cleansable |-> FALSE, color |-> "high"]
    ELSE IF strIncludes(desc, "shield")
    THEN [type |-> "medium", ccType |-> "Shield", cleansable |-> FALSE, color |-> "medium"]
    ELSE IF strIncludes(desc, "poke")
    THEN [type |-> "medium", ccType |-> "Poke", cleansable |-> FALSE, color |-> "medium"]
    ELSE IF strIncludes(desc, "heal") \/ strIncludes(desc, "his maximum health")
            \/ strIncludes(desc, "her maximum health") \/ strIncludes(desc, "regenerat")
    THEN [type |-> "low", ccType |-> "Sustain", cleansable |-> FALSE, color |-> "low"]
    ELSE Null

classifyCC(s) == classifyText(LowerField(s, "description"), LowerField(s, "name"))

-----------------------------------------------------------------------------
(* app.js: classifyAbility *)

\* summaryData?.abilities?.[abilityIndex]: the curated entry of the ability, or
\* Undefined; abilities are indexed from 1 here (Q = 1 .. R = 4), from 0 in the source
AbilitySummary(summary, index) ==
    IF IsNull(summary) \/ "abilities" \notin DOMAIN summary THEN Undefined
    ELSE IF index \notin 1..Len(summary.abilities) THEN Undefined
    ELSE IF IsNull(summary.abilities[index]) THEN Undefined
    ELSE summary.abilities[index]

\* summaryData.abilities[abilityIndex].threat || []
ThreatOf(entry) == IF "threat" \in DOMAIN entry THEN entry.threat ELSE <<>>

\* the first half of classifyAbility: the locals after the curated tags are read
FromSummary(summary, index) ==
    LET entry == AbilitySummary(summary, index)
    IN  IF entry # Undefined
        THEN [hasAbilitySummary |-> TRUE, classifications |-> classifyThreatTags(ThreatOf(entry))]
        ELSE [hasAbilitySummary |-> FALSE, classifications |-> <<>>]

\* mutant: Mobility is missing from the list of non-CC threats
nonCCThreats_NoMobility == <<"Shield", "Sustain", "Burst", "Poke", "Stealth">>

nonCCThreats == <<"Shield", "Sustain", "Burst", "Poke", "Stealth", "Mobility">>

\* mutant: the fallback branch does not test hasAbilitySummary
AcceptDescription_IgnoresSummary(descCls, cls, has, allowFallback) ==
    IF ~IsNull(descCls) /\ includes(<<"Shield", "Sustain", "Burst", "Poke", "Stealth", "Mobility">>,
                                    descCls.ccType)
    THEN <<descCls>>
    ELSE IF allowFallback THEN <<descCls>>
    ELSE cls

\* the classifyCC result accepted by the description branch of classifyAbility,
\* given the locals cls and has
AcceptDescription(descCls, cls, has, allowFallback) ==
    IF ~IsNull(descCls) /\ includes(nonCCThreats, descCls.ccType) THEN <<descCls>>
    ELSE IF allowFallback /\ ~has THEN <<descCls>>
    ELSE cls

\* mutant: the description is read whatever the curated tags gave
ConsultsDescription_Always(cls) == TRUE

\* whether classifyAbility calls classifyCC, given the tag-based classifications
ConsultsDescription(cls) == Len(cls) = 0

\* the array classifyAbility returns
classifyAbility(s, summary, index, allowFallback) ==
    LET t == FromSummary(summary, index)
    IN  IF ConsultsDescription(t.classifications)
        THEN AcceptDescription(classifyCC(s), t.classifications, t.hasAbilitySummary, allowFallback)
        ELSE t.classifications

-----------------------------------------------------------------------------
(* app.js: analyzeThreats *)

\* obj.field || dflt, for a field the object may lack
FieldOr(obj, field, dflt) == IF field \in DOMAIN obj THEN obj[field] ELSE dflt

\* the severity analyzeThreats derives from the type of a classification
Severity(type) ==
    IF type = "hard" THEN "high"
    ELSE IF type = "suppression" THEN "high"
    ELSE IF type = "soft" THEN "medium"
    ELSE type

\* the threat analyzeThreats builds from a classification (the icon, a display
\* string looked up by label, is left out)
ThreatOfClassification(c) ==
    [label |-> c.ccType, severity |-> Severity(c.type), cleansable |-> c.cleansable,
     qssOnly |-> FieldOr(c, "qssOnly", FALSE)]

\* mutant: the seen-label set is not consulted
RECURSIVE CollectThreats_NoSeenCheck(_, _, _)
CollectThreats_NoSeenCheck(cls, k, acc) ==
    IF k > Len(cls) THEN acc
    ELSE IF ~IsNull(cls[k])
         THEN CollectThreats_NoSeenCheck(cls, k + 1,
                  [threats |-> Append(acc.threats, ThreatOfClassification(cls[k])),
                   seenTypes |-> acc.seenTypes \cup {cls[k].ccType}])
         ELSE CollectThreats_NoSeenCheck(cls, k + 1, acc)

\* mutant: a new threat is put at the front of the array (unshift for push)
RECURSIVE CollectThreats_Unshift(_, _, _)
CollectThreats_Unshift(cls, k, acc) ==
    IF k > Len(cls) THEN acc
    ELSE IF ~IsNull(cls[k]) /\ cls[k].ccType \notin acc.seenTypes
         THEN CollectThreats_Unshift(cls, k + 1,
                  [threats |-> <<ThreatOfClassification(cls[k])>> \o acc.threats,
                   seenTypes |-> acc.seenTypes \cup {cls[k].ccType}])
         ELSE CollectThreats_Unshift(cls, k + 1, acc)

\* the inner forEach of analyzeThreats over the classifications cls from index k on:
\* acc is [threats, seenTypes]
RECURSIVE CollectThreats(_, _, _)
CollectThreats(cls, k, acc) ==
    IF k > Len(cls) THEN acc
    ELSE LET c == cls[k]
         IN  IF ~IsNull(c) /\ c.ccType \notin acc.seenTypes
             THEN CollectThreats(cls, k + 1,
                      [threats |-> Append(acc.threats, ThreatOfClassification(c)),
                       seenTypes |-> acc.seenTypes \cup {c.ccType}])
             ELSE CollectThreats(cls, k + 1, acc)

\* the number of threats analyzeThreats returns at most
DisplayCap == 10

\* Array.prototype.slice(0, n)
SliceTo(arr, n) == IF Len(arr) <= n THEN arr ELSE SubSeq(arr, 1, n)

-----------------------------------------------------------------------------
(* overlay: ThreatAnalyzer *)

CC_CLASSIFICATIONS == [
    KNOCKUP          |-> [type |-> "hard", label |-> "Knockup", cleansable |-> FALSE, color |-> "hard"],
    KNOCKBACK        |-> [type |-> "hard", label |-> "Knockback", cleansable |-> FALSE, color |-> "hard"],
    PULL             |-> [type |-> "hard", label |-> "Pull", cleansable |-> FALSE, color |-> "hard"],
    NEARSIGHT        |-> [type |-> "hard", label |-> "Nearsight", cleansable |-> FALSE, color |-> "hard"],
    SUPPRESSION      |-> [type |-> "suppression", label |-> "Suppression", cleansable |-> FALSE, qssOnly |-> TRUE, color |-> "hard"],
    STUN             |-> [type |-> "hard", label |-> "Stun", cleansable |-> TRUE, color |-> "hard"],
    ROOT             |-> [type |-> "hard", label |-> "Root", cleansable |-> TRUE, color |-> "hard"],
    SNARE            |-> [type |-> "hard", label |-> "Root", cleansable |-> TRUE, color |-> "hard"],
    SLEEP            |-> [type |-> "hard", label |-> "Sleep", cleansable |-> TRUE, color |-> "hard"],
    CHARM            |-> [type |-> "hard", label |-> "Charm", cleansable |-> TRUE, color |-> "hard"],
    FEAR             |-> [type |-> "hard", label |-> "Fear", cleansable |-> TRUE, color |-> "hard"],
    TAUNT            |-> [type |-> "hard", label |-> "Taunt", cleansable |-> TRUE, color |-> "hard"],
    POLYMORPH        |-> [type |-> "hard", label |-> "Polymorph", cleansable |-> TRUE, color |-> "hard"],
    SLOW             |-> [type |-> "soft", label |-> "Slow", cleansable |-> TRUE, color |-> "soft"],
    SILENCE          |-> [type |-> "soft", label |-> "Silence", cleansable |-> TRUE, color |-> "soft"],
    BLIND            |-> [type |-> "soft", label |-> "Blind", cleansable |-> TRUE, color |-> "soft"],
    DISARM           |-> [type |-> "soft", label |-> "Disarm", cleansable |-> TRUE, color |-> "soft"],
    GROUNDED         |-> [type |-> "soft", label |-> "Grounded", cleansable |-> TRUE, color |-> "soft"],
    CRIPPLE          |-> [type |-> "soft", label |-> "Cripple", cleansable |-> TRUE, color |-> "soft"],
    GAP_CLOSE        |-> [type |-> "high", label |-> "Mobility", cleansable |-> FALSE, color |-> "high"],
    DASH             |-> [type |-> "high", label |-> "Dash", cleansable |-> FALSE, color |-> "high"],
    STEALTH          |-> [type |-> "high", label |-> "Stealth", cleansable |-> FALSE, color |-> "high"],
    DODGE            |-> [type |-> "high", label |-> "Dodge", cleansable |-> FALSE, color |-> "high"],
    PROJECTILE_BLOCK |-> [type |-> "high", label |-> "Block", cleansable |-> FALSE, color |-> "high"],
    BURST            |-> [type |-> "high", label |-> "Burst", cleansable |-> FALSE, color |-> "high"],
    SHIELD           |-> [type |-> "medium", label |-> "Shield", cleansable |-> FALSE, color |-> "medium"],
    SHIELD_PEEL      |-> [type |-> "medium", label |-> "Shield", cleansable |-> FALSE, color |-> "medium"],
    SUSTAIN          |-> [type |-> "low", label |-> "Sustain", cleansable |-> FALSE, color |-> "low"],
    GHOST            |-> [type |-> "low", label |-> "Ghost", cleansable |-> FALSE, color |-> "low"]
]

PRIORITY_ORDER == <<
    "SUPPRESSION", "NEARSIGHT",
    "KNOCKUP", "KNOCKBACK", "PULL",
    "STUN", "ROOT", "SNARE", "CHARM", "FEAR", "TAUNT", "SLEEP", "POLYMORPH",
    "SILENCE", "BLIND", "DISARM", "GROUNDED", "CRIPPLE", "SLOW",
    "DODGE", "PROJECTILE_BLOCK", "STEALTH", "GAP_CLOSE", "DASH", "BURST",
    "SHIELD_PEEL", "SHIELD",
    "SUSTAIN", "GHOST"
>>

abilityKeys == <<"Q", "W", "E", "R">>

\* ['Q', 'W', 'E', 'R'][index]
AbilityKey(index) == IF index \in 1..Len(abilityKeys) THEN abilityKeys[index] ELSE "undefined"

\* the forEach of analyzeAbility over the tags from index k on
RECURSIVE AbilityThreatsFrom(_, _, _)
AbilityThreatsFrom(tags, k, index) ==
    IF k > Len(tags) THEN <<>>
    ELSE LET classification == TableEntry(CC_CLASSIFICATIONS, tags[k])
         IN  IF classification # Undefined
             THEN <<classification @@ [abilityIndex |-> index, abilityKey |-> AbilityKey(index)]>>
                  \o AbilityThreatsFrom(tags, k + 1, index)
             ELSE AbilityThreatsFrom(tags, k + 1, index)

\* mutant: analyzeAbility pushes the table lookup of every tag, found or not
analyzeAbility_PushesEveryLookup(ability, index) ==
    IF IsNull(ability) \/ "threat" \notin DOMAIN ability THEN <<>>
    ELSE [k \in 1..Len(ability.threat) |->
             LET classification == TableEntry(CC_CLASSIFICATIONS, ability.threat[k])
             IN  IF classification # Undefined
                 THEN classification @@ [abilityIndex |-> index, abilityKey |-> AbilityKey(index)]
                 ELSE Undefined]

\* ThreatAnalyzer.analyzeAbility(ability, index)
analyzeAbility(ability, index) ==
    IF IsNull(ability) \/ "threat" \notin DOMAIN ability THEN <<>>
    ELSE IF Len(ability.threat) = 0 THEN <<>>
    ELSE AbilityThreatsFrom(ability.threat, 1, index)

RoleThreat(type, label) ==
    [type |-> type, label |-> label, cleansable |-> FALSE, color |-> type]

\* ThreatAnalyzer.analyzeFromTags(tags)
analyzeFromTags(tags) ==
    (IF includes(tags, "Assassin") THEN <<RoleThreat("high", "Assassin")>> ELSE <<>>)
    \o (IF includes(tags, "Fighter") THEN <<RoleThreat("medium", "Fighter")>> ELSE <<>>)
    \o (IF includes(tags, "Tank") THEN <<RoleThreat("medium", "Tank")>> ELSE <<>>)
    \o (IF includes(tags, "Mage") THEN <<RoleThreat("medium", "Mage")>> ELSE <<>>)

\* the forEach that appends the threats whose label was not seen: acc is [threats, seenTypes]
RECURSIVE AppendUnseen(_, _, _)
AppendUnseen(ts, k, acc) ==
    IF k > Len(ts) THEN acc
    ELSE IF ts[k].label \notin acc.seenTypes
         THEN AppendUnseen(ts, k + 1, [threats |-> Append(acc.threats, ts[k]),
                                       seenTypes |-> acc.seenTypes \cup {ts[k].label}])
         ELSE AppendUnseen(ts, k + 1, acc)

typeOrder == [hard |-> 0, suppression |-> 1, soft |-> 2, high |-> 3, medium |-> 4, low |-> 5]

\* typeOrder[type] ?? 99
TypeRank(type) == IF type \in DOMAIN typeOrder THEN typeOrder[type] ELSE 99

\* the labels the overlay produces, in the order of String.prototype.localeCompare
LabelsSorted == <<
    "Assassin", "Blind", "Block", "Burst", "Charm", "Cripple", "Dash", "Disarm", "Dodge",
    "Fear", "Fighter", "Ghost", "Grounded", "Knockback", "Knockup", "Mage", "Mobility",
    "Nearsight", "Polymorph", "Pull", "Root", "Shield", "Silence", "Sleep", "Slow",
    "Stealth", "Stun", "Suppression", "Sustain", "Tank", "Taunt"
>>

LabelIndex(label) == CHOOSE k \in 1..Len(LabelsSorted) : LabelsSorted[k] = label

\* the comparator of sortByPriority is negative: a sorts before b
SortsBefore(a, b) ==
    IF TypeRank(a.type) # TypeRank(b.type) THEN TypeRank(a.type) < TypeRank(b.type)
    ELSE LabelIndex(a.label) < LabelIndex(b.label)

\* t inserted into the sorted array arr, after the elements it does not sort before
RECURSIVE InsertSorted(_, _)
InsertSorted(arr, t) ==
    IF Len(arr) = 0 THEN <<t>>
    ELSE IF SortsBefore(t, arr[1]) THEN <<t>> \o arr
    ELSE <<arr[1]>> \o InsertSorted(Tail(arr), t)

\* Array.prototype.sort (stable) with the comparator of sortByPriority
RECURSIVE SortFrom(_, _, _)
SortFrom(ts, k, sorted) ==
    IF k > Len(ts) THEN sorted ELSE SortFrom(ts, k + 1, InsertSorted(sorted, ts[k]))

sortByPriority(ts) == SortFrom(ts, 1, <<>>)

-----------------------------------------------------------------------------
(* Overlay window: the threat badge of an ability (getChampionAbilities) *)

\* the map of threatFromTag
threatMap == [
    KNOCKUP     |-> [label |-> "Knockup", color |-> "hard"],
    KNOCKBACK   |-> [label |-> "Knockback", color |-> "hard"],
    STUN        |-> [label |-> "Stun", color |-> "hard"],
    ROOT        |-> [label |-> "Root", color |-> "hard"],
    SUPPRESSION |-> [label |-> "Suppress", color |-> "hard"],
    CHARM       |-> [label |-> "Charm", color |-> "hard"],
    FEAR        |-> [label |-> "Fear", color |-> "hard"],
    TAUNT       |-> [label |-> "Taunt", color |-> "hard"],
    SILENCE     |-> [label |-> "Silence", color |-> "soft"],
    SLOW        |-> [label |-> "Slow", color |-> "low"],
    GAP_CLOSE   |-> [label |-> "Mobility", color |-> "high"],
    STEALTH     |-> [label |-> "Stealth", color |-> "high"],
    BURST       |-> [label |-> "Burst", color |-> "high"]
]

\* threatMap[tag] || null
threatFromTag(tag) == IF tag \in DOMAIN threatMap THEN threatMap[tag] ELSE Null

\* the tags that make getChampionAbilities show a badge
hardCCTags == <<"STUN", "ROOT", "KNOCKUP", "KNOCKBACK", "SUPPRESSION", "CHARM", "FEAR", "TAUNT">>

\* ability.cooldowns?.[0]
FirstCooldown(ability) ==
    IF "cooldowns" \in DOMAIN ability /\ Len(ability.cooldowns) > 0
    THEN ability.cooldowns[1] ELSE Undefined

\* the element getChampionAbilities pushes for the ability at index k
AbilityBadge(ability, k) ==
    LET tags == IF "threat" \in DOMAIN ability THEN ability.threat ELSE <<>>
        hasCCThreat == \E n \in 1..Len(tags) : includes(hardCCTags, tags[n])
    IN  [key |-> AbilityKey(k), cooldown |-> FirstCooldown(ability), hasCC |-> hasCCThreat,
         threat |-> IF hasCCThreat THEN threatFromTag(tags[1]) ELSE Null]

\* OverlayController.getChampionAbilities(champion, summary)
getChampionAbilities(champ, summary) ==
    IF ~IsNull(summary) /\ "abilities" \in DOMAIN summary
    THEN [k \in 1..Len(summary.abilities) |-> AbilityBadge(summary.abilities[k], k)]
    ELSE [k \in 1..Len(abilityKeys) |-> [key |-> abilityKeys[k], hasCC |-> FALSE]]

-----------------------------------------------------------------------------
(* SecurityUtils: escapeHtml, sanitizeKey, sanitizeObject.  The untrusted values
   are JavaScript values of any type, so they carry their type: a string, number
   or boolean is a record with the field t, an array holds its items, an object
   holds its own enumerable properties in insertion order and its prototype. *)

JsString(str) == [t |-> "string", s |-> str]
JsNumber(n) == [t |-> "number", n |-> n]
JsBoolean(b) == [t |-> "boolean", b |-> b]
JsArray(items) == [t |-> "array", items |-> items]

\* Object.prototype, the prototype of an object literal
ObjectPrototype == [builtin |-> "Object.prototype"]

JsObject(props) == [t |-> "object", props |-> props, proto |-> ObjectPrototype]

Prop(k, v) == [key |-> k, value |-> v]

\* the entities of escapeHtml; the source has one more, for the grave accent, a
\* character that no string of the inputs below holds
htmlEntities ==
    ("&" :> "&amp;") @@ ("<" :> "&lt;") @@ (">" :> "&gt;") @@ ("\"" :> "&quot;")
    @@ ("'" :> "&#x27;") @@ ("/" :> "&#x2F;") @@ ("=" :> "&#x3D;")

\* str.replace(/[&<>"'=/]/g, char => htmlEntities[char])
RECURSIVE escapeHtml(_)
escapeHtml(str) ==
    IF Len(str) = 0 THEN ""
    ELSE LET char == SubSeq(str, 1, 1)
         IN  (IF char \in DOMAIN htmlEntities THEN htmlEntities[char] ELSE char)
             \o escapeHtml(SubSeq(str, 2, Len(str)))

blockedKeys == <<"__proto__", "constructor", "prototype">>

\* the characters of the class [a-zA-Z0-9_]
WordChars == "abcdefghijklmnopqrstuvwxyzABCDEFGHIJKLMNOPQRSTUVWXYZ0123456789_"

IsWordChar(char) == \E k \in 1..Len(WordChars) : SubSeq(WordChars, k, k) = char

\* /^[a-zA-Z0-9_]+$/.test(str)
IsWord(str) == Len(str) > 0 /\ \A k \in 1..Len(str) : IsWordChar(SubSeq(str, k, k))

\* str.replace(/[^a-zA-Z0-9_]/g, '_')
RECURSIVE ReplaceNonWord(_)
ReplaceNonWord(str) ==
    IF Len(str) = 0 THEN ""
    ELSE (IF IsWordChar(SubSeq(str, 1, 1)) THEN SubSeq(str, 1, 1) ELSE "_")
         \o ReplaceNonWord(SubSeq(str, 2, Len(str)))

\* SecurityUtils.sanitizeKey(key), for the string keys that for...in gives: null
\* for a blocked key, else the key with the other characters replaced
sanitizeKey(k) ==
    IF includes(blockedKeys, toLowerCase(k)) THEN Null
    ELSE IF ~IsWord(k) THEN JsString(ReplaceNonWord(k))
    ELSE JsString(k)

\* if (safeKey): neither null nor the empty string
Truthy(safeKey) == safeKey # Null /\ safeKey.s # ""

\* target[k] = v on an object literal: the key __proto__ is the accessor of
\* Object.prototype, which replaces the prototype when v is an object or null and
\* does nothing otherwise; any other key sets an own property
SetProperty(target, k, v) ==
    IF k = "__proto__"
    THEN IF v = Null \/ (v # Undefined /\ v.t \in {"object", "array"})
         THEN [target EXCEPT !.proto = v]
         ELSE target
    ELSE IF \E n \in 1..Len(target.props) : target.props[n].key = k
    THEN [target EXCEPT !.props = [n \in 1..Len(target.props) |->
                                     IF target.props[n].key = k THEN Prop(k, v)
                                     ELSE target.props[n]]]
    ELSE [target EXCEPT !.props = Append(target.props, Prop(k, v))]

\* SecurityUtils.sanitizeObject(obj, maxDepth); AssignProps is its for...in loop
\* over the properties from index n on, acc being the local `sanitized`
RECURSIVE sanitizeObject(_, _), AssignProps(_, _, _, _)
sanitizeObject(o, maxDepth) ==
    IF maxDepth <= 0 THEN Null
    ELSE IF o = Null \/ o = Undefined THEN o
    ELSE IF o.t = "string" THEN JsString(escapeHtml(o.s))
    ELSE IF o.t = "number" \/ o.t = "boolean" THEN o
    ELSE IF o.t = "array"
    THEN JsArray([n \in 1..Len(o.items) |-> sanitizeObject(o.items[n], maxDepth - 1)])
    ELSE IF o.t = "object" THEN AssignProps(o.props, 1, JsObject(<<>>), maxDepth)
    ELSE Null

AssignProps(props, n, acc, maxDepth) ==
    IF n > Len(props) THEN acc
    ELSE LET safeKey == sanitizeKey(props[n].key)
         IN  IF Truthy(safeKey)
             THEN AssignProps(props, n + 1,
                      SetProperty(acc, safeKey.s, sanitizeObject(props[n].value, maxDepth - 1)),
                      maxDepth)
             ELSE AssignProps(props, n + 1, acc, maxDepth)

\* the keys that sanitizeObject(obj, maxDepth) assigns under, at every depth
RECURSIVE KeysAssigned(_, _)
KeysAssigned(o, maxDepth) ==
    IF maxDepth <= 0 \/ o = Null \/ o = Undefined THEN {}
    ELSE IF o.t = "array"
    THEN UNION {KeysAssigned(o.items[n], maxDepth - 1) : n \in 1..Len(o.items)}
    ELSE IF o.t = "object"
    THEN UNION {(IF Truthy(sanitizeKey(o.props[n].key))
                 THEN {sanitizeKey(o.props[n].key).s}
                      \cup KeysAssigned(o.props[n].value, maxDepth - 1)
                 ELSE {}) : n \in 1..Len(o.props)}
    ELSE {}

\* the default of the parameter maxDepth
DefaultMaxDepth == 10

-----------------------------------------------------------------------------
(* StorageService: the settings kept in overwolf.settings.extension.  A settings
   object is a JavaScript object as above; a string is either JSON text, held as
   the value it parses to, or text that JSON.parse rejects. *)

\* a string that is the JSON text of the value
JsonString(v) == [t |-> "string", json |-> v]

\* typeof v
TypeOf(v) ==
    IF v = Undefined THEN "undefined"
    ELSE IF v = Null THEN "object"
    ELSE IF v.t = "array" THEN "object"
    ELSE v.t

\* the value is truthy: not undefined, null, "", 0 or false
IsTruthy(v) ==
    /\ v # Undefined /\ v # Null
    /\ v # JsString("") /\ v # JsNumber(0) /\ v # JsBoolean(FALSE)

\* key in o
HasProperty(o, k) ==
    /\ o # Null /\ o # Undefined /\ o.t = "object"
    /\ \E n \in 1..Len(o.props) : o.props[n].key = k

\* o[key], or o.key: undefined when the object has no such property
GetProperty(o, k) ==
    IF HasProperty(o, k)
    THEN o.props[CHOOSE n \in 1..Len(o.props) : o.props[n].key = k].value
    ELSE Undefined

\* { ...v }: the own properties of an object, the items of an array under their indices
Spread(v) ==
    IF v.t = "array" THEN JsObject([n \in 1..Len(v.items) |-> Prop(ToString(n - 1), v.items[n])])
    ELSE JsObject(v.props)

\* JSON.parse(text): the value, or an exception
JSONparse(text) ==
    IF "json" \in DOMAIN text THEN [threw |-> FALSE, value |-> text.json] ELSE [threw |-> TRUE]

\* JSON.stringify(v), which leaves out the properties whose value is undefined
RECURSIVE Jsonable(_)
Jsonable(v) ==
    IF v = Null \/ v = Undefined THEN v
    ELSE IF v.t = "array"
    THEN JsArray([n \in 1..Len(v.items) |->
                     IF v.items[n] = Undefined THEN Null ELSE Jsonable(v.items[n])])
    ELSE IF v.t = "object"
    THEN LET kept == SelectSeq(v.props, LAMBDA q : q.value # Undefined)
         IN  JsObject([n \in 1..Len(kept) |-> Prop(kept[n].key, Jsonable(kept[n].value))])
    ELSE v

JSONstringify(v) == JsonString(Jsonable(v))

DEFAULT_SETTINGS == JsObject(<<
    Prop("overlayOpacity", JsNumber(85)),
    Prop("overlayPosition", JsObject(<<Prop("left", JsNumber(50)), Prop("top", JsNumber(100))>>)),
    Prop("overlaySize", JsObject(<<Prop("width", JsNumber(420)), Prop("height", JsNumber(600))>>)),
    Prop("overlayLocked", JsBoolean(FALSE)),
    Prop("overlayTheme", JsString("dark")),
    Prop("autoShowOverlay", JsBoolean(TRUE)),
    Prop("showInGame", JsBoolean(TRUE)),
    Prop("openOnStart", JsBoolean(FALSE)),
    Prop("minimizeToTray", JsBoolean(TRUE)),
    Prop("showCooldowns", JsBoolean(TRUE)),
    Prop("showThreatTags", JsBoolean(TRUE)),
    Prop("showTips", JsBoolean(TRUE)),
    Prop("showAllyInfo", JsBoolean(TRUE)),
    Prop("compactMode", JsBoolean(FALSE)),
    Prop("customHotkeys", JsObject(<<
        Prop("toggleOverlay", JsString("Ctrl+Shift+T")),
        Prop("lockPosition", JsString("Ctrl+Shift+L")),
        Prop("increaseTransparency", JsString("Ctrl+Shift+Up")),
        Prop("decreaseTransparency", JsString("Ctrl+Shift+Down"))>>)),
    Prop("preferredADC", Null),
    Prop("settingsVersion", JsNumber(1))
>>)

\* the keys of isValidSettingValue that must hold a boolean
booleanSettings == {"overlayLocked", "autoShowOverlay", "showInGame", "openOnStart",
                    "minimizeToTray", "showCooldowns", "showThreatTags", "showTips",
                    "showAllyInfo", "compactMode"}

overlayThemes == <<"dark", "light", "transparent">>

\* isValidSettingValue(key, value) throws a TypeError: it reads value.left or
\* value.width of null, whose typeof is 'object'
ValidationThrows(k, v) == k \in {"overlayPosition", "overlaySize"} /\ v = Null

\* typeof value.<k> === 'number', for a value that is no null
IsNumberAt(v, k) == TypeOf(GetProperty(v, k)) = "number"

\* StorageService.isValidSettingValue(key, value), when it does not throw
isValidSettingValue(k, v) ==
    IF k = "overlayOpacity" THEN TypeOf(v) = "number" /\ v.n >= 0 /\ v.n <= 100
    ELSE IF k = "overlayPosition"
    THEN TypeOf(v) = "object" /\ IsNumberAt(v, "left") /\ IsNumberAt(v, "top")
    ELSE IF k = "overlaySize"
    THEN /\ TypeOf(v) = "object"
         /\ IsNumberAt(v, "width") /\ GetProperty(v, "width").n >= 200
         /\ IsNumberAt(v, "height") /\ GetProperty(v, "height").n >= 150
    ELSE IF k = "overlayTheme"
    THEN \E n \in 1..Len(overlayThemes) : v = JsString(overlayThemes[n])
    ELSE IF k \in booleanSettings THEN TypeOf(v) = "boolean"
    ELSE IF k = "preferredADC" THEN v = Null \/ TypeOf(v) = "string"
    ELSE TRUE

\* sanitized[key] = { ...settings[key] } for an object, settings[key] otherwise
CopyOf(v) == IF TypeOf(v) = "object" /\ v # Null THEN Spread(v) ELSE v

\* mutant: the loop of sanitizeSettings copies every stored setting, valid or not
RECURSIVE CopySettings_NoValidation(_, _, _)
CopySettings_NoValidation(stored, n, acc) ==
    IF n > Len(DEFAULT_SETTINGS.props) THEN acc
    ELSE LET k == DEFAULT_SETTINGS.props[n].key
         IN  IF HasProperty(stored, k)
             THEN CopySettings_NoValidation(stored, n + 1,
                      SetProperty(acc, k, CopyOf(GetProperty(stored, k))))
             ELSE CopySettings_NoValidation(stored, n + 1, acc)

\* the loop of sanitizeSettings over the keys of DEFAULT_SETTINGS from index n on,
\* acc being the local `sanitized`
RECURSIVE CopySettings(_, _, _)
CopySettings(stored, n, acc) ==
    IF n > Len(DEFAULT_SETTINGS.props) THEN acc
    ELSE LET k == DEFAULT_SETTINGS.props[n].key
         IN  IF HasProperty(stored, k) /\ isValidSettingValue(k, GetProperty(stored, k))
             THEN CopySettings(stored, n + 1,
                      SetProperty(acc, k, CopyOf(GetProperty(stored, k))))
             ELSE CopySettings(stored, n + 1, acc)

\* sanitizeSettings(settings) throws: a stored key makes isValidSettingValue throw
SanitizeThrows(stored) ==
    /\ IsTruthy(stored) /\ TypeOf(stored) = "object"
    /\ \E n \in 1..Len(DEFAULT_SETTINGS.props) :
           LET k == DEFAULT_SETTINGS.props[n].key
           IN  HasProperty(stored, k) /\ ValidationThrows(k, GetProperty(stored, k))

\* StorageService.sanitizeSettings(settings), when it does not throw
sanitizeSettings(stored) ==
    IF ~IsTruthy(stored) \/ TypeOf(stored) # "object" THEN Spread(DEFAULT_SETTINGS)
    ELSE CopySettings(stored, 1, Spread(DEFAULT_SETTINGS))

\* the settings that StorageService.getSettings resolves to when the get calls back
\* with { success, value }
getSettings(success, value) ==
    IF success /\ IsTruthy(value)
    THEN LET parsed == IF TypeOf(value) = "string" THEN JSONparse(value)
                       ELSE [threw |-> FALSE, value |-> value]
         IN  IF parsed.threw THEN Spread(DEFAULT_SETTINGS)
             ELSE IF SanitizeThrows(parsed.value) THEN Spread(DEFAULT_SETTINGS)
             ELSE sanitizeSettings(parsed.value)
    ELSE Spread(DEFAULT_SETTINGS)

-----------------------------------------------------------------------------
(* BackgroundController: hotkeys, game events and the overlay window *)

Min(a, b) == IF a < b THEN a ELSE b
Max(a, b) == IF a > b THEN a ELSE b

\* Math.min(100, Math.max(20, opacity + delta)) of adjustTransparency
adjustedOpacity(opacity, delta) == Min(100, Max(20, opacity + delta))

\* the delta that handleHotkey passes to adjustTransparency
hotkeyDelta(hotkey) == IF hotkey = "increase_transparency" THEN 5 ELSE 0 - 5

\* the value that StorageService.setSettings(settings) hands to extension.set
savedSettings(stored) == JSONstringify(sanitizeSettings(stored))

\* the window object that obtainDeclaredWindow('overlay') yields
DeclaredOverlay == [name |-> "overlay"]

\* an async call of the background suspended at an await: the function, the call
\* it awaits, the hotkey or the cause it serves, the value it holds
Task(proc, at, name, value) == [proc |-> proc, at |-> at, name |-> name, value |-> value]

\* the tasks without the n-th, and with the n-th replaced
WithoutTask(ts, n) == SubSeq(ts, 1, n - 1) \o SubSeq(ts, n + 1, Len(ts))
WithTask(ts, n, t) == [ts EXCEPT ![n] = t]

\* a message of sendToOverlay
Message(type, payload) == [type |-> type, payload |-> payload]

-----------------------------------------------------------------------------
(* SecurityUtils.createRateLimiter *)

\* the while loop of isAllowed: shift the head of the array while it is older
\* than windowStart
RECURSIVE ShiftOld(_, _)
ShiftOld(reqs, windowStart) ==
    IF Len(reqs) > 0 /\ reqs[1] < windowStart THEN ShiftOld(Tail(reqs), windowStart)
    ELSE reqs

\* the loop, were it to shift the requests made at windowStart as well
RECURSIVE ShiftOld_AtWindowStart(_, _)
ShiftOld_AtWindowStart(reqs, windowStart) ==
    IF Len(reqs) > 0 /\ reqs[1] <= windowStart THEN ShiftOld_AtWindowStart(Tail(reqs), windowStart)
    ELSE reqs

\* mutant: isAllowed forgets the requests made at windowStart
isAllowed_ForgetsWindowStart(reqs, now, maxReq, window) ==
    LET kept == ShiftOld_AtWindowStart(reqs, now - window)
    IN  IF Len(kept) >= maxReq
        THEN [requests |-> kept, returned |-> FALSE]
        ELSE [requests |-> Append(kept, now), returned |-> TRUE]

\* isAllowed() at the clock value now, for the array reqs: the array it leaves and
\* the value it returns
isAllowed(reqs, now, maxReq, window) ==
    LET kept == ShiftOld(reqs, now - window)
    IN  IF Len(kept) >= maxReq
        THEN [requests |-> kept, returned |-> FALSE]
        ELSE [requests |-> Append(kept, now), returned |-> TRUE]

-----------------------------------------------------------------------------
(* SecurityUtils.sanitizeChampSelectData and the validators it calls *)

\* String(v)
RECURSIVE JsToString(_)
RECURSIVE JoinItems(_)
JoinItems(items) ==
    IF Len(items) = 0 THEN ""
    ELSE LET head == IF items[1] = Null \/ items[1] = Undefined THEN "" ELSE JsToString(items[1])
         IN  IF Len(items) = 1 THEN head ELSE head \o "," \o JoinItems(Tail(items))
JsToString(v) ==
    IF v = Undefined THEN "undefined"
    ELSE IF v = Null THEN "null"
    ELSE IF v.t = "string" THEN v.s
    ELSE IF v.t = "number" THEN ToString(v.n)
    ELSE IF v.t = "boolean" THEN (IF v.b THEN "true" ELSE "false")
    ELSE IF v.t = "array" THEN JoinItems(v.items)
    ELSE "[object Object]"

DecimalDigits == "0123456789"
IsDigit(char) == \E k \in 1..Len(DecimalDigits) : SubSeq(DecimalDigits, k, k) = char
DigitValue(char) == (CHOOSE k \in 1..Len(DecimalDigits) : SubSeq(DecimalDigits, k, k) = char) - 1

\* the string without its leading blanks
RECURSIVE TrimStart(_)
TrimStart(str) ==
    IF Len(str) > 0 /\ SubSeq(str, 1, 1) = " " THEN TrimStart(SubSeq(str, 2, Len(str))) ELSE str

\* the number that the leading digits of str spell, after the digits read as acc
RECURSIVE LeadingDigits(_, _)
LeadingDigits(str, acc) ==
    IF Len(str) > 0 /\ IsDigit(SubSeq(str, 1, 1))
    THEN LeadingDigits(SubSeq(str, 2, Len(str)), 10 * acc + DigitValue(SubSeq(str, 1, 1)))
    ELSE acc

NotANumber == [nan |-> TRUE]

\* parseInt(v, 10): the string of v, blanks skipped, a sign, then digits as far
\* as they go; NaN without a digit
parseInt(v) ==
    LET trimmed == TrimStart(JsToString(v))
        signed == Len(trimmed) > 0 /\ SubSeq(trimmed, 1, 1) \in {"-", "+"}
        digits == IF signed THEN SubSeq(trimmed, 2, Len(trimmed)) ELSE trimmed
    IN  IF Len(digits) = 0 \/ ~IsDigit(SubSeq(digits, 1, 1)) THEN NotANumber
        ELSE [nan |-> FALSE,
              n |-> IF signed /\ SubSeq(trimmed, 1, 1) = "-"
                    THEN 0 - LeadingDigits(digits, 0) ELSE LeadingDigits(digits, 0)]

\* SecurityUtils.validateChampionId(id)
validateChampionId(id) ==
    LET numId == parseInt(id)
    IN  IF numId.nan THEN JsNumber(0)
        ELSE IF numId.n < 0 \/ numId.n > 10000 THEN JsNumber(0)
        ELSE JsNumber(numId.n)

\* SecurityUtils.validateSummonerId(id), for the whole numbers of the inputs
validateSummonerId(id) ==
    IF TypeOf(id) = "number" THEN JsNumber(IF id.n < 0 THEN 0 - id.n ELSE id.n)
    ELSE IF TypeOf(id) = "string" THEN JsString(escapeHtml(id.s))
    ELSE JsString("")

\* this.escapeHtml(String(v || ''))
EscapedText(v) == JsString(escapeHtml(IF IsTruthy(v) THEN JsToString(v) ELSE ""))

\* Array.isArray(v)
IsArray(v) == v # Null /\ v # Undefined /\ v.t = "array"

\* a read of a property of v throws a TypeError
ReadThrows(v) == v = Null \/ v = Undefined

\* the object that the map over myTeam makes of a player
sanitizeMyTeamPlayer(player) ==
    JsObject(<<Prop("cellId", validateChampionId(GetProperty(player, "cellId"))),
               Prop("championId", validateChampionId(GetProperty(player, "championId"))),
               Prop("championPickIntent", validateChampionId(GetProperty(player, "championPickIntent"))),
               Prop("summonerId", validateSummonerId(GetProperty(player, "summonerId"))),
               Prop("assignedPosition", EscapedText(GetProperty(player, "assignedPosition"))),
               Prop("spell1Id", validateChampionId(GetProperty(player, "spell1Id"))),
               Prop("spell2Id", validateChampionId(GetProperty(player, "spell2Id")))>>)

\* the object that the map over theirTeam makes of a player
sanitizeTheirTeamPlayer(player) ==
    JsObject(<<Prop("cellId", validateChampionId(GetProperty(player, "cellId"))),
               Prop("championId", validateChampionId(GetProperty(player, "championId"))),
               Prop("championPickIntent", validateChampionId(GetProperty(player, "championPickIntent")))>>)

\* the object that the map over actions makes of an action
sanitizeAction(action) ==
    JsObject(<<Prop("actorCellId", validateChampionId(GetProperty(action, "actorCellId"))),
               Prop("championId", validateChampionId(GetProperty(action, "championId"))),
               Prop("completed", JsBoolean(IsTruthy(GetProperty(action, "completed")))),
               Prop("isAllyAction", JsBoolean(IsTruthy(GetProperty(action, "isAllyAction")))),
               Prop("type", EscapedText(GetProperty(action, "type")))>>)

\* bans.slice(0, 5).map(id => this.validateChampionId(id)).filter(id => id > 0)
sanitizeBans(list) ==
    IF IsArray(list)
    THEN LET kept == SliceTo(list.items, 5)
         IN  JsArray(SelectSeq([k \in 1..Len(kept) |-> validateChampionId(kept[k])],
                               LAMBDA id : id.n > 0))
    ELSE JsArray(<<>>)

\* the elements of list that a map of sanitizeChampSelectData reads
MappedItems(list, count) == IF IsArray(list) THEN SliceTo(list.items, count) ELSE <<>>

\* sanitizeChampSelectData(data) throws: a map reads a property of null or undefined
sanitizeChampSelectThrows(data) ==
    /\ IsTruthy(data) /\ TypeOf(data) = "object"
    /\ \/ \E k \in DOMAIN MappedItems(GetProperty(data, "myTeam"), 5) :
              ReadThrows(MappedItems(GetProperty(data, "myTeam"), 5)[k])
       \/ \E k \in DOMAIN MappedItems(GetProperty(data, "theirTeam"), 5) :
              ReadThrows(MappedItems(GetProperty(data, "theirTeam"), 5)[k])
       \/ \E k \in DOMAIN MappedItems(GetProperty(data, "actions"), 50) :
              ReadThrows(MappedItems(GetProperty(data, "actions"), 50)[k])

\* SecurityUtils.sanitizeChampSelectData(data): the value returned, or the throw
sanitizeChampSelectData(data) ==
    IF ~IsTruthy(data) \/ TypeOf(data) # "object" THEN [threw |-> FALSE, value |-> Null]
    ELSE IF sanitizeChampSelectThrows(data) THEN [threw |-> TRUE]
    ELSE LET myTeam == MappedItems(GetProperty(data, "myTeam"), 5)
             theirTeam == MappedItems(GetProperty(data, "theirTeam"), 5)
             bans == GetProperty(data, "bans")
             actions == MappedItems(GetProperty(data, "actions"), 50)
         IN  [threw |-> FALSE,
              value |-> JsObject(<<
                  Prop("phase", EscapedText(GetProperty(data, "phase"))),
                  Prop("localPlayerCellId", validateChampionId(GetProperty(data, "localPlayerCellId"))),
                  Prop("myTeam", JsArray([k \in 1..Len(myTeam) |-> sanitizeMyTeamPlayer(myTeam[k])])),
                  Prop("theirTeam", JsArray([k \in 1..Len(theirTeam) |-> sanitizeTheirTeamPlayer(theirTeam[k])])),
                  Prop("bans", JsObject(<<
                      Prop("myTeam", IF IsTruthy(bans) THEN sanitizeBans(GetProperty(bans, "myTeam"))
                                     ELSE JsArray(<<>>)),
                      Prop("theirTeam", IF IsTruthy(bans) THEN sanitizeBans(GetProperty(bans, "theirTeam"))
                                        ELSE JsArray(<<>>))>>)),
                  Prop("actions", JsArray([k \in 1..Len(actions) |-> sanitizeAction(actions[k])]))>>)]

-----------------------------------------------------------------------------
(* LCUService: connecting to the League client, reconnecting, disconnecting *)

maxReconnectAttempts == 10

\* mutant: scheduleReconnect stops one attempt late
scheduleReconnect_StopsLate(attempts) ==
    IF attempts > maxReconnectAttempts THEN [reconnectAttempts |-> attempts, scheduled |-> FALSE]
    ELSE [reconnectAttempts |-> attempts + 1, scheduled |-> TRUE]

\* scheduleReconnect() with this.reconnectAttempts = attempts: the counter it
\* leaves, and whether it set a timer that calls connect()
scheduleReconnect(attempts) ==
    IF attempts >= maxReconnectAttempts THEN [reconnectAttempts |-> attempts, scheduled |-> FALSE]
    ELSE [reconnectAttempts |-> attempts + 1, scheduled |-> TRUE]

\* the credentials that getLCUCredentials reads from the launcher's command line
LcuCredentials == [port |-> 2999, authToken |-> "token", protocol |-> "https"]

\* the interval that startPolling sets
PollingTimer == [everyMs |-> 1000]

\* a call of connect() suspended at an await: at getLCUCredentials, or at
\* connectWebSocket with the socket it made (0: the constructor threw) and
\* whether its 5 s timeout is still to fire
Connect(at, socket, timeout) == [at |-> at, socket |-> socket, timeout |-> timeout]

WithoutConnect(cs, n) == SubSeq(cs, 1, n - 1) \o SubSeq(cs, n + 1, Len(cs))

\* the sockets with the closed ones forgotten that neither this.ws (ref, 0 for
\* null) nor a call of connect() refers to
Collect(socks, ref, cs) ==
    [id \in DOMAIN socks |->
        IF socks[id] = "closed" /\ ref # id /\ \A n \in 1..Len(cs) : cs[n].socket # id
        THEN "free" ELSE socks[id]]

\* the calls of connect() that can still go on: one that waits for a socket that
\* is closing or closed, its timeout gone, waits for ever
CanResume(socks, c) ==
    c.at = "connectWebSocket" => (c.timeout \/ socks[c.socket] \in {"connecting", "open"})

Resumable(socks, cs) == SelectSeq(cs, LAMBDA c : CanResume(socks, c))

-----------------------------------------------------------------------------
(* Inputs of the tag classifier *)

\* a tag of the curated data that no table knows
UnknownTag == "TENACITY"

\* the threat tags curated data may hold
Tags == DOMAIN ccClassifications \cup {UnknownTag}

\* longest threat array given to classifyThreatTags
MaxTags == 2

TagArrays == SeqsUpTo(Tags, MaxTags)

-----------------------------------------------------------------------------
(* Inputs of the text classifier *)

\* words and phrases of ability descriptions; each keyword classifyCC looks for
\* occurs in one of them, some inside a longer word and some capitalised
Words == {
    "Suppresses", "knocks", "airborne", "Pulls", "drags", "nearsighted", "blind zone",
    "Stuns", "roots", "immobilizes", "snares", "slows", "Charms", "fears", "flee",
    "taunts", "silences", "blinds", "disarms", "cripples", "attack speed", "reduced",
    "sleep", "drowsy", "Dashes", "blinks", "leaps", "burst", "damage", "bonus",
    "maximum health", "missing health", "stealth", "invisible", "camouflage",
    "shield", "poke", "Heals", "his maximum health", "her maximum health",
    "regenerates", "the target"
}

\* most words joined into one description
MaxWords == 2

RECURSIVE JoinWords(_)
JoinWords(parts) ==
    IF Len(parts) = 0 THEN ""
    ELSE IF Len(parts) = 1 THEN parts[1]
    ELSE parts[1] \o " " \o JoinWords(Tail(parts))

\* the description of the specification's example
StunExample == "Deals damage and stuns the target for 1.5 seconds"

\* the descriptions of at most n words
Descriptions(n) == {JoinWords(parts) : parts \in SeqsUpTo(Words, n)}

SpellNames == {"Knockout Punch", "Shadow Dash", "Leap Strike"}

\* a spell of the champion detail data: name and description may each be missing;
\* the named spells have the shorter descriptions
IsSpell(s) ==
    \/ \E d \in Descriptions(MaxWords) \cup {StunExample} : s = [description |-> d]
    \/ \E n \in SpellNames, d \in Descriptions(MaxWords - 1) : s = [name |-> n, description |-> d]
    \/ \E n \in SpellNames : s = [name |-> n]
    \/ s = [id |-> "Spell"]

-----------------------------------------------------------------------------
(* Inputs of classifyAbility *)

\* one description for each value classifyCC can return, one that matches nothing
AbilityDescriptions == {
    "Suppresses the target", "Knocks enemies airborne", "Pulls the target", "nearsighted",
    StunExample, "Roots the target", "Slows enemies", "Charms the target", "flee",
    "Taunts enemies", "Silences the target", "Blinds the target", "Disarms the target",
    "Cripples the target", "drowsy", "Dashes forward", "bonus magic damage",
    "Becomes invisible", "Shields an ally", "poke", "Heals an ally", "Passive effect"
}

AbilitySpells ==
    {[name |-> "Spell", description |-> d] : d \in AbilityDescriptions}
    \cup {[name |-> "Leap Strike"], [id |-> "Spell"]}

\* the threat tags of the curated entries given to classifyAbility
EntryTags == {"SLOW", "SNARE", "BURST", UnknownTag}

\* a curated ability entry: with threat tags, or without the threat field
Entries ==
    {[threat |-> t] : t \in SeqsUpTo(EntryTags, MaxTags)} \cup {[cooldowns |-> <<8>>]}

\* the summary of a champion: missing, without abilities, or with one ability entry
AbilitySummaries ==
    {Null, [name |-> "Champion"]} \cup {[abilities |-> <<e>>] : e \in Entries}

-----------------------------------------------------------------------------
(* Inputs of the champion-level aggregation *)

\* most abilities of a champion (the game data has four: Q, W, E, R)
MaxSpells == 4

\* an ability of the web app's input: its spell and its curated entry (Null: none)
WebAbilities == {
    [spell |-> [id |-> "Spell"], entry |-> Null],
    [spell |-> [name |-> "Spell", description |-> "Shields an ally"], entry |-> Null],
    [spell |-> [name |-> "Spell", description |-> StunExample], entry |-> Null],
    [spell |-> [name |-> "Spell", description |-> "Shields an ally"],
     entry |-> [threat |-> <<"SHIELD_PEEL", "SLOW">>]],
    [spell |-> [name |-> "Spell", description |-> "Heals an ally"],
     entry |-> [threat |-> <<"SHIELD">>]],
    [spell |-> [name |-> "Spell", description |-> "Passive effect"],
     entry |-> [threat |-> <<"GHOST", "SUSTAIN", "REVEAL", "DASH", "STEALTH", "SILENCE",
                             "STUN", "SNARE", "ROOT", "FEAR", "PULL", "SUPPRESSION">>]]
}

\* a curated ability entry of the overlay's input (Null: none)
OverlayEntries == {
    Null,
    [cooldowns |-> <<8>>],
    [threat |-> <<"SHIELD_PEEL", "SLOW">>],
    [threat |-> <<"SHIELD", UnknownTag>>],
    [threat |-> <<"STUN", "SNARE", "SUPPRESSION", "ROOT">>]
}

\* the champions given to the overlay: none, one without role tags, one with
OverlayChampions == {
    [name |-> "Champion"],
    [name |-> "Champion", tags |-> <<"Mage", "Assassin", "Marksman">>]
}

IdleAbility ==
    /\ spell = Unused /\ summaryData = Unused /\ abilityIndex = Unused
    /\ allowFallbackCC = Unused /\ hasAbilitySummary = Unused
    /\ classifications = Unused /\ descClassification = Unused /\ ccCalls = 0

IdleChampion ==
    /\ app = Unused /\ champion = Unused /\ spells = Unused /\ i = 0
    /\ threats = Unused /\ seenTypes = Unused

IdleTags == threatTags = Unused /\ matchedClassifications = Unused

InitTags ==
    /\ pc = "classifyThreatTags"
    /\ threatTags \in TagArrays
    /\ matchedClassifications = Unused
    /\ IdleAbility /\ IdleChampion
    /\ IdleServices

\* a call classifyThreatTags(threatTags)
CallClassifyThreatTags ==
    /\ pc = "classifyThreatTags"
    /\ matchedClassifications' = classifyThreatTags(threatTags)
    /\ pc' = "returned"
    /\ UNCHANGED <<threatTags, abilityVars, championVars>>
    /\ UNCHANGED serviceVars

InitText ==
    /\ pc = "classifyCC"
    /\ IsSpell(spell)
    /\ descClassification = Unused
    /\ ccCalls = 0
    /\ summaryData = Unused /\ abilityIndex = Unused /\ allowFallbackCC = Unused
    /\ hasAbilitySummary = Unused /\ classifications = Unused
    /\ IdleTags /\ IdleChampion
    /\ IdleServices

\* a call classifyCC(spell)
CallClassifyCC ==
    /\ pc = "classifyCC"
    /\ descClassification' = classifyCC(spell)
    /\ ccCalls' = ccCalls + 1
    /\ pc' = "returned"
    /\ UNCHANGED <<spell, summaryData, abilityIndex, allowFallbackCC, hasAbilitySummary,
                   classifications, tagVars, championVars>>
    /\ UNCHANGED serviceVars

NextText == CallClassifyCC

SpecText == InitText /\ [][NextText]_vars

InitAbility ==
    /\ pc = "classifyAbility"
    /\ spell \in AbilitySpells
    /\ summaryData \in AbilitySummaries
    /\ abilityIndex \in 1..2
    /\ allowFallbackCC \in BOOLEAN
    /\ hasAbilitySummary = FALSE
    /\ classifications = <<>>
    /\ descClassification = Unused
    /\ ccCalls = 0
    /\ IdleTags /\ IdleChampion
    /\ IdleServices

\* classifyAbility, up to the test of classifications.length
AbilityFromSummary ==
    /\ pc = "classifyAbility"
    /\ LET t == FromSummary(summaryData, abilityIndex)
       IN  /\ hasAbilitySummary' = t.hasAbilitySummary
           /\ classifications' = t.classifications
    /\ pc' = "checkDescription"
    /\ UNCHANGED <<spell, summaryData, abilityIndex, allowFallbackCC, descClassification,
                   ccCalls, tagVars, championVars>>
    /\ UNCHANGED serviceVars

\* classifyAbility, from the test of classifications.length to the return
AbilityFromDescription ==
    /\ pc = "checkDescription"
    /\ IF ConsultsDescription(classifications)
       THEN /\ descClassification' = classifyCC(spell)
            /\ ccCalls' = ccCalls + 1
            /\ classifications' = AcceptDescription(descClassification', classifications,
                                                    hasAbilitySummary, allowFallbackCC)
       ELSE UNCHANGED <<descClassification, ccCalls, classifications>>
    /\ pc' = "returned"
    /\ UNCHANGED <<spell, summaryData, abilityIndex, allowFallbackCC, hasAbilitySummary,
                   tagVars, championVars>>
    /\ UNCHANGED serviceVars

NextAbility == AbilityFromSummary \/ AbilityFromDescription

SpecAbility == InitAbility /\ [][NextAbility]_vars

-----------------------------------------------------------------------------
(* Champion level: analyzeThreats (web app) and analyzeChampion (overlay) *)

\* the summaries that hold the given entries: the array, or no summary at all when
\* every entry is missing
SummariesOf(entries) ==
    {[abilities |-> entries]}
    \cup (IF \A k \in 1..Len(entries) : IsNull(entries[k]) THEN {Null} ELSE {})

InitWeb ==
    /\ app = "web"
    /\ pc = "analyzeThreats"
    /\ champion = [name |-> "Champion"]
    /\ \E abilities \in SeqsUpTo(WebAbilities, MaxSpells) :
          /\ spells = [k \in 1..Len(abilities) |-> abilities[k].spell]
          /\ summaryData \in SummariesOf([k \in 1..Len(abilities) |-> abilities[k].entry])
    /\ i = 1
    /\ threats = <<>>
    /\ seenTypes = {}
    /\ ccCalls = 0

InitOverlay ==
    /\ app = "overlay"
    /\ pc = "analyzeChampion"
    /\ spells = Unused
    /\ \/ /\ champion \in OverlayChampions
          /\ \E entries \in SeqsUpTo(OverlayEntries, MaxSpells) :
                summaryData \in SummariesOf(entries) \cup {[name |-> "Champion"]}
       \/ /\ champion = Null
          /\ summaryData = Null
    /\ i = 0
    /\ threats = Unused
    /\ seenTypes = Unused
    /\ ccCalls = 0

InitChampion ==
    /\ InitWeb \/ InitOverlay
    /\ spell = Unused /\ abilityIndex = Unused /\ allowFallbackCC = Unused
    /\ hasAbilitySummary = Unused /\ classifications = Unused
    /\ descClassification = Unused
    /\ IdleTags
    /\ IdleServices

\* whether classifyAbility(s, summary, index, _) calls classifyCC
CallsClassifyCC(summary, index) ==
    ConsultsDescription(FromSummary(summary, index).classifications)

\* analyzeThreats: one turn of spells.forEach
AnalyzeSpell ==
    /\ pc = "analyzeThreats"
    /\ i <= Len(spells)
    /\ LET cls == classifyAbility(spells[i], summaryData, i, TRUE)
           acc == CollectThreats(cls, 1, [threats |-> threats, seenTypes |-> seenTypes])
       IN  /\ threats' = acc.threats
           /\ seenTypes' = acc.seenTypes
    /\ ccCalls' = ccCalls + (IF CallsClassifyCC(summaryData, i) THEN 1 ELSE 0)
    /\ i' = i + 1
    /\ UNCHANGED <<pc, app, champion, spells, summaryData, spell, abilityIndex,
                   allowFallbackCC, hasAbilitySummary, classifications, descClassification,
                   tagVars>>
    /\ UNCHANGED serviceVars

\* analyzeThreats: return threats.slice(0, 10)
ReturnThreats ==
    /\ pc = "analyzeThreats"
    /\ i > Len(spells)
    /\ threats' = SliceTo(threats, DisplayCap)
    /\ pc' = "returned"
    /\ UNCHANGED <<i, seenTypes, ccCalls, app, champion, spells, summaryData, spell,
                   abilityIndex, allowFallbackCC, hasAbilitySummary, classifications,
                   descClassification, tagVars>>
    /\ UNCHANGED serviceVars

\* summary?.abilities of analyzeChampion, an empty array when there is none
SummaryAbilities(summary) ==
    IF IsNull(summary) \/ "abilities" \notin DOMAIN summary THEN <<>> ELSE summary.abilities

\* analyzeChampion: the null check and the locals
EnterAnalyzeChampion ==
    /\ pc = "analyzeChampion"
    /\ IF IsNull(champion)
       THEN /\ threats' = <<>>
            /\ pc' = "returned"
            /\ UNCHANGED <<seenTypes, i>>
       ELSE /\ threats' = <<>>
            /\ seenTypes' = {}
            /\ i' = 1
            /\ pc' = "abilities"
    /\ UNCHANGED <<ccCalls, app, champion, spells, summaryData, spell, abilityIndex,
                   allowFallbackCC, hasAbilitySummary, classifications, descClassification,
                   tagVars>>
    /\ UNCHANGED serviceVars

\* analyzeChampion: one turn of summary.abilities.forEach
AnalyzeChampionAbility ==
    /\ pc = "abilities"
    /\ i <= Len(SummaryAbilities(summaryData))
    /\ LET abilityThreats == analyzeAbility(SummaryAbilities(summaryData)[i], i)
           acc == AppendUnseen(abilityThreats, 1, [threats |-> threats, seenTypes |-> seenTypes])
       IN  /\ threats' = acc.threats
           /\ seenTypes' = acc.seenTypes
    /\ i' = i + 1
    /\ UNCHANGED <<pc, ccCalls, app, champion, spells, summaryData, spell, abilityIndex,
                   allowFallbackCC, hasAbilitySummary, classifications, descClassification,
                   tagVars>>
    /\ UNCHANGED serviceVars

\* the threats analyzeChampion returns, given those of the abilities
WithFallbackSorted(ts, seen, champ) ==
    IF Len(ts) = 0
    THEN sortByPriority(AppendUnseen(analyzeFromTags(FieldOr(champ, "tags", <<>>)), 1,
                                     [threats |-> ts, seenTypes |-> seen]).threats)
    ELSE sortByPriority(ts)

\* analyzeChampion: the fallback on the champion's role tags, the sort and the return
ReturnChampionThreats ==
    /\ pc = "abilities"
    /\ i > Len(SummaryAbilities(summaryData))
    /\ threats' = WithFallbackSorted(threats, seenTypes, champion)
    /\ seenTypes' = seenTypes \cup {threats'[k].label : k \in 1..Len(threats')}
    /\ pc' = "returned"
    /\ UNCHANGED <<i, ccCalls, app, champion, spells, summaryData, spell, abilityIndex,
                   allowFallbackCC, hasAbilitySummary, classifications, descClassification,
                   tagVars>>
    /\ UNCHANGED serviceVars

NextChampion ==
    \/ AnalyzeSpell
    \/ ReturnThreats
    \/ EnterAnalyzeChampion
    \/ AnalyzeChampionAbility
    \/ ReturnChampionThreats

SpecChampion == InitChampion /\ [][NextChampion]_vars

NextTags == CallClassifyThreatTags

SpecTags == InitTags /\ [][NextTags]_vars

-----------------------------------------------------------------------------
(* The two tag classifiers side by side: classifyThreatTags of the web app and
   ThreatAnalyzer.analyzeAbility of the overlay, on the same threat arrays *)

InitTagClassifiers ==
    /\ threatTags \in TagArrays
    /\ matchedClassifications = Unused
    /\ \/ /\ app = "web" /\ pc = "classifyThreatTags" /\ abilityIndex = Unused
       \/ /\ app = "overlay" /\ pc = "analyzeAbility" /\ abilityIndex \in 1..Len(abilityKeys)
    /\ spell = Unused /\ summaryData = Unused
    /\ allowFallbackCC = Unused /\ hasAbilitySummary = Unused
    /\ classifications = Unused /\ descClassification = Unused /\ ccCalls = 0
    /\ champion = Unused /\ spells = Unused /\ i = 0
    /\ threats = Unused /\ seenTypes = Unused
    /\ IdleServices

\* a call ThreatAnalyzer.analyzeAbility({ threat: threatTags }, abilityIndex)
CallAnalyzeAbility ==
    /\ pc = "analyzeAbility"
    /\ matchedClassifications' = analyzeAbility([threat |-> threatTags], abilityIndex)
    /\ pc' = "returned"
    /\ UNCHANGED <<threatTags, abilityVars, championVars>>
    /\ UNCHANGED serviceVars

NextTagClassifiers == CallClassifyThreatTags \/ CallAnalyzeAbility

SpecTagClassifiers == InitTagClassifiers /\ [][NextTagClassifiers]_vars

-----------------------------------------------------------------------------
(* The four producers of classification records: the web app's tag table and
   text classifier, the overlay's ThreatAnalyzer table and its badge map *)

\* the summaries given to getChampionAbilities: none, or one curated ability
BadgeSummaries ==
    {Null, [abilities |-> <<[cooldowns |-> <<8>>]>>]}
    \cup {[abilities |-> <<[threat |-> t, cooldowns |-> <<8>>]>>] : t \in TagArrays}

InitRecords ==
    /\ \/ /\ producer = "classifyThreatTags" /\ pc = "classifyThreatTags"
          /\ threatTags \in TagArrays
          /\ spell = Unused /\ abilityIndex = Unused /\ summaryData = Unused
       \/ /\ producer = "classifyCC" /\ pc = "classifyCC"
          /\ IsSpell(spell)
          /\ threatTags = Unused /\ abilityIndex = Unused /\ summaryData = Unused
       \/ /\ producer = "analyzeAbility" /\ pc = "analyzeAbility"
          /\ threatTags \in TagArrays
          /\ abilityIndex = 1
          /\ spell = Unused /\ summaryData = Unused
       \/ /\ producer = "getChampionAbilities" /\ pc = "getChampionAbilities"
          /\ summaryData \in BadgeSummaries
          /\ threatTags = Unused /\ spell = Unused /\ abilityIndex = Unused
    /\ matchedClassifications = Unused /\ descClassification = Unused
    /\ championAbilities = Unused
    /\ allowFallbackCC = Unused /\ hasAbilitySummary = Unused
    /\ classifications = Unused /\ ccCalls = 0
    /\ app = Unused /\ champion = Unused /\ spells = Unused /\ i = 0
    /\ threats = Unused /\ seenTypes = Unused
    /\ IdleSanitize /\ IdleOverlay /\ IdleStorage /\ IdleBackground /\ IdleLimiter /\ IdleChampSelect /\ IdleLcu

\* a call getChampionAbilities(champion, summaryData)
CallGetChampionAbilities ==
    /\ pc = "getChampionAbilities"
    /\ championAbilities' = getChampionAbilities(champion, summaryData)
    /\ pc' = "returned"
    /\ UNCHANGED <<producer, exceptBadge>>

NextRecords ==
    \/ CallClassifyThreatTags
    \/ CallClassifyCC
    \/ CallAnalyzeAbility
    \/ CallGetChampionAbilities

SpecRecords == InitRecords /\ [][NextRecords]_vars

-----------------------------------------------------------------------------
(* SecurityUtils.sanitizeObject on untrusted data *)

\* the pieces that the keys of the untrusted data are made of
KeyParts == {"__", "$_", "proto", "Proto", "constructor", "prototype", "a b", "x"}

\* most pieces in one key
MaxKeyParts == 3

RECURSIVE Concat(_)
Concat(parts) == IF Len(parts) = 0 THEN "" ELSE parts[1] \o Concat(Tail(parts))

\* the values stored under the keys
Leaves == {JsNumber(1), JsBoolean(TRUE), JsString("<b a='1'>"), Null, Undefined,
           JsObject(<<Prop("x", JsNumber(1))>>), JsArray(<<JsNumber(1)>>)}

\* objects nested n deep
RECURSIVE Nested(_)
Nested(n) == IF n = 0 THEN JsNumber(1) ELSE JsObject(<<Prop("next", Nested(n - 1))>>)

\* the untrusted values: an object with one property, at the top, under another
\* key or in an array; an object with a repeated key; values that are no objects;
\* a nesting deeper than maxDepth
IsRawData(o) ==
    \/ \E parts \in SeqsUpTo(KeyParts, MaxKeyParts), v \in Leaves :
          o = JsObject(<<Prop(Concat(parts), v)>>)
    \/ \E parts \in SeqsUpTo(KeyParts, MaxKeyParts), v \in {JsNumber(1), Null} :
          \/ o = JsObject(<<Prop("data", JsObject(<<Prop(Concat(parts), v)>>))>>)
          \/ o = JsArray(<<JsObject(<<Prop(Concat(parts), v)>>)>>)
          \/ o = JsObject(<<Prop("a b", JsNumber(2)), Prop(Concat(parts), v)>>)
    \/ o \in Leaves
    \/ o = Nested(DefaultMaxDepth + 1)

InitSanitize ==
    /\ pc = "sanitizeObject"
    /\ IsRawData(rawData)
    /\ sanitized = Unused
    /\ assignedKeys = {}
    /\ IdleTags /\ IdleAbility /\ IdleChampion /\ IdleBadge /\ IdleOverlay /\ IdleStorage /\ IdleBackground /\ IdleLimiter /\ IdleChampSelect /\ IdleLcu

\* a call SecurityUtils.sanitizeObject(rawData)
CallSanitizeObject ==
    /\ pc = "sanitizeObject"
    /\ sanitized' = sanitizeObject(rawData, DefaultMaxDepth)
    /\ assignedKeys' = KeysAssigned(rawData, DefaultMaxDepth)
    /\ pc' = "returned"
    /\ UNCHANGED <<rawData, exceptSanitize>>

NextSanitize == CallSanitizeObject

SpecSanitize == InitSanitize /\ [][NextSanitize]_vars

-----------------------------------------------------------------------------
(* Overlay window: OverlayController, its lock and its drag and resize handlers.
   Between two handlers the window waits for the next event (pc = "idle"); the
   events are mouse events, clicks on the lock button, SETTINGS_UPDATE messages
   and the callbacks of overwolf.windows.getCurrentWindow. *)

\* largest mouse coordinate
MaxCoord == 1

\* the positions of the mouse: clientX and clientY of an event
MouseEvents == [clientX : 0..MaxCoord, clientY : 0..MaxCoord]

\* most getCurrentWindow callbacks of one handler waiting to run
MaxPending == 1

\* most startResize calls that register listeners
MaxListeners == 1

\* the payloads of the SETTINGS_UPDATE messages the background sends
SettingsUpdates ==
    {[overlayLocked |-> b] : b \in BOOLEAN} \cup {[overlayOpacity |-> 90]}

NoWindowCall == [api |-> "none", locked |-> FALSE]

\* the controller after init(): settings loaded and applied, no drag in progress
InitOverlayLock ==
    /\ pc = "idle"
    /\ settings \in [overlayOpacity : {85}, overlayLocked : BOOLEAN]
    /\ isLocked = settings.overlayLocked
    /\ isDragging = FALSE
    /\ isResizing = FALSE
    /\ dragOffset = [x |-> 0, y |-> 0]
    /\ resizeListeners = 0
    /\ pendingDrag = <<>>
    /\ pendingResize = <<>>
    /\ lastWindowCall = NoWindowCall
    /\ IdleTags /\ IdleAbility /\ IdleChampion /\ IdleBadge /\ IdleSanitize /\ IdleStorage /\ IdleBackground /\ IdleLimiter /\ IdleChampSelect /\ IdleLcu

\* mousedown on the drag handle: startDrag(e)
StartDrag ==
    \E e \in MouseEvents :
        /\ ~isLocked
        /\ isDragging' = TRUE
        /\ dragOffset' = [x |-> e.clientX, y |-> e.clientY]
        /\ UNCHANGED <<pc, isLocked, isResizing, settings, resizeListeners, pendingDrag,
                       pendingResize, lastWindowCall, exceptOverlay>>

\* mousedown on the resize handle: startResize(e), which registers a bound onResize
\* and a bound stopResize on the document
StartResize ==
    \E e \in MouseEvents :
        /\ ~isLocked
        /\ resizeListeners < MaxListeners
        /\ isResizing' = TRUE
        /\ dragOffset' = [x |-> e.clientX, y |-> e.clientY]
        /\ resizeListeners' = resizeListeners + 1
        /\ UNCHANGED <<pc, isLocked, isDragging, settings, pendingDrag, pendingResize,
                       lastWindowCall, exceptOverlay>>

\* mousemove on the document: onDrag(e), then every bound onResize(e); each one that
\* is active asks for the window and sets dragOffset
MouseMove ==
    \E e \in MouseEvents :
        LET resizes == IF isResizing THEN resizeListeners ELSE 0
        IN  /\ isDragging \/ resizes > 0
            /\ isDragging => Len(pendingDrag) < MaxPending
            /\ Len(pendingResize) + resizes <= MaxPending
            /\ pendingDrag' =
                   IF isDragging
                   THEN Append(pendingDrag, [deltaX |-> e.clientX - dragOffset.x,
                                             deltaY |-> e.clientY - dragOffset.y])
                   ELSE pendingDrag
            /\ pendingResize' = pendingResize \o [n \in 1..resizes |-> e]
            /\ dragOffset' = [x |-> e.clientX, y |-> e.clientY]
            /\ UNCHANGED <<pc, isLocked, isDragging, isResizing, settings, resizeListeners,
                           lastWindowCall, exceptOverlay>>

\* mouseup on the document: stopDrag(), then every bound stopResize(), whose
\* removeEventListener is given the unbound methods and removes nothing
MouseUp ==
    /\ isDragging' = FALSE
    /\ isResizing' = FALSE
    /\ UNCHANGED <<pc, isLocked, dragOffset, settings, resizeListeners, pendingDrag,
                   pendingResize, lastWindowCall, exceptOverlay>>

\* click on the lock button: toggleLock()
ToggleLock ==
    /\ isLocked' = ~isLocked
    /\ UNCHANGED <<pc, isDragging, isResizing, dragOffset, settings, resizeListeners,
                   pendingDrag, pendingResize, lastWindowCall, exceptOverlay>>

\* a SETTINGS_UPDATE message: handleSettingsUpdate(updates), that is Object.assign
\* and applySettings
HandleSettingsUpdate ==
    \E updates \in SettingsUpdates :
        /\ settings' = updates @@ settings
        /\ isLocked' = settings'.overlayLocked
        /\ UNCHANGED <<pc, isDragging, isResizing, dragOffset, resizeListeners, pendingDrag,
                       pendingResize, lastWindowCall, exceptOverlay>>

\* the getCurrentWindow callback of onDrag: changePosition when the result succeeds
DragCallback ==
    \E success \in BOOLEAN :
        /\ Len(pendingDrag) > 0
        /\ pendingDrag' = Tail(pendingDrag)
        /\ lastWindowCall' = IF success THEN [api |-> "changePosition", locked |-> isLocked]
                                        ELSE lastWindowCall
        /\ UNCHANGED <<pc, isLocked, isDragging, isResizing, dragOffset, settings,
                       resizeListeners, pendingResize, exceptOverlay>>

\* the getCurrentWindow callback of onResize: changeSize when the result succeeds
ResizeCallback ==
    \E success \in BOOLEAN :
        /\ Len(pendingResize) > 0
        /\ pendingResize' = Tail(pendingResize)
        /\ lastWindowCall' = IF success THEN [api |-> "changeSize", locked |-> isLocked]
                                        ELSE lastWindowCall
        /\ UNCHANGED <<pc, isLocked, isDragging, isResizing, dragOffset, settings,
                       resizeListeners, pendingDrag, exceptOverlay>>

NextOverlayLock ==
    \/ StartDrag
    \/ StartResize
    \/ MouseMove
    \/ MouseUp
    \/ ToggleLock
    \/ HandleSettingsUpdate
    \/ DragCallback
    \/ ResizeCallback

SpecOverlayLock == InitOverlayLock /\ [][NextOverlayLock]_vars

-----------------------------------------------------------------------------
(* StorageService.getSettings on any stored value *)

\* a key that DEFAULT_SETTINGS does not have
ExtraKey == "debugMode"

\* every key a stored object may hold
AllStoredKeys ==
    [n \in 1..Len(DEFAULT_SETTINGS.props) |-> DEFAULT_SETTINGS.props[n].key] \o <<ExtraKey>>

\* the keys that stored objects combine: one of each validation rule, one without
\* rule, the extra key
CombinedKeys == <<"overlayOpacity", "overlayPosition", "overlaySize", "overlayLocked",
                  "overlayTheme", "autoShowOverlay", "customHotkeys", "preferredADC", ExtraKey>>

\* most keys that a stored object combines
MaxStoredKeys == 2

Position(l, tp) == JsObject(<<Prop("left", l), Prop("top", tp)>>)
Size(w, h) == JsObject(<<Prop("width", w), Prop("height", h)>>)

\* the values stored under a key: valid ones, and invalid ones of each kind (wrong
\* type, out of range, null, a field missing)
StoredCandidates(k) ==
    IF k = "overlayOpacity"
    THEN {JsNumber(0), JsNumber(50), JsNumber(100), JsNumber(101), JsString("85"), Null}
    ELSE IF k = "overlayPosition"
    THEN {Position(JsNumber(10), JsNumber(20)),
          JsObject(<<Prop("left", JsNumber(1)), Prop("top", JsNumber(2)), Prop("z", JsNumber(3))>>),
          Position(JsString("10"), JsNumber(20)), JsObject(<<Prop("left", JsNumber(1))>>),
          Null, JsArray(<<JsNumber(1)>>)}
    ELSE IF k = "overlaySize"
    THEN {Size(JsNumber(200), JsNumber(150)), Size(JsNumber(199), JsNumber(150)),
          Size(JsNumber(200), JsString("150")), Null, JsObject(<<>>)}
    ELSE IF k = "overlayTheme"
    THEN {JsString("light"), JsString("transparent"), JsString("blue"), JsNumber(1)}
    ELSE IF k \in booleanSettings
    THEN {JsBoolean(TRUE), JsBoolean(FALSE), JsString("true"), JsNumber(1), Null}
    ELSE IF k = "preferredADC"
    THEN {Null, JsString("Jinx"), JsNumber(1), JsObject(<<>>)}
    ELSE IF k = "customHotkeys"
    THEN {JsObject(<<Prop("toggleOverlay", JsString("F1"))>>), JsArray(<<JsString("F1")>>),
          JsString("F1"), Null}
    ELSE {JsNumber(2), JsString("1")}

\* the property lists over the keys from index n on, of at most budget properties
RECURSIVE PropsFrom(_, _, _)
PropsFrom(keys, n, budget) ==
    IF n > Len(keys) THEN {<<>>}
    ELSE PropsFrom(keys, n + 1, budget)
         \cup (IF budget = 0 THEN {}
               ELSE {<<Prop(keys[n], v)>> \o rest :
                        v \in StoredCandidates(keys[n]),
                        rest \in PropsFrom(keys, n + 1, budget - 1)})

\* the stored objects: one key of all, or several of the combined keys
StoredObjects ==
    {JsObject(q) : q \in PropsFrom(AllStoredKeys, 1, 1) \cup PropsFrom(CombinedKeys, 1, MaxStoredKeys)}

\* the values found in the store: nothing, an object or its JSON text, text that is
\* no JSON, JSON text of a value that is no object, values of other types
StoredValues ==
    StoredObjects \cup {JsonString(o) : o \in StoredObjects}
    \cup {Undefined, Null, JsString(""), JsString("{oops"), JsonString(JsNumber(5)),
          JsonString(Null), JsonString(JsArray(<<>>)), JsonString(JsString("dark")),
          JsNumber(0), JsNumber(7), JsBoolean(TRUE), JsArray(<<>>)}

InitStorage ==
    /\ pc = "getSettings"
    /\ storedValue \in StoredValues
    /\ getSucceeds \in BOOLEAN
    /\ resolved = Unused
    /\ IdleTags /\ IdleAbility /\ IdleChampion /\ IdleBadge /\ IdleSanitize /\ IdleOverlay
    /\ IdleBackground /\ IdleLimiter /\ IdleChampSelect /\ IdleLcu

\* StorageService.getSettings(): the callback of overwolf.settings.extension.get
\* resolves the promise
CallGetSettings ==
    /\ pc = "getSettings"
    /\ resolved' = getSettings(getSucceeds, storedValue)
    /\ pc' = "resolved"
    /\ UNCHANGED <<storedValue, getSucceeds, exceptStorage>>

NextStorage == CallGetSettings

SpecStorage == InitStorage /\ [][NextStorage]_vars

-----------------------------------------------------------------------------
(* The background controller under hotkeys and game events.  Every handler runs
   to its next await; the awaited callbacks arrive in any order. *)

\* most async calls in flight, and the events that arrive
MaxTasks == 2
MaxEvents == 3

Hotkeys == {"toggle_overlay", "lock_position", "increase_transparency", "decrease_transparency"}

GamePhases == {"None", "Lobby", "ChampSelect", "InProgress"}

\* the opacities found in the store when the background starts
InitialOpacities == {10, 20, 60, 100}

\* the stores the background starts with: empty, or settings that setSettings saved
InitialStores ==
    {Undefined} \cup
    {savedSettings(JsObject(<<Prop("overlayOpacity", JsNumber(o)),
                              Prop("autoShowOverlay", JsBoolean(a))>>)) :
        o \in InitialOpacities, a \in BOOLEAN}

\* the settings a getSettings of the background resolves to now
settingsNow == getSettings(getSucceeds, storedValue)

InitBackground ==
    /\ pc = "background"
    /\ storedValue \in InitialStores
    /\ getSucceeds = TRUE
    /\ resolved = Unused
    /\ overlayWindow = Null
    /\ isGameRunning = FALSE
    /\ isInChampSelect = FALSE
    /\ currentGamePhase = Null
    /\ currentPhase = Null
    /\ tasks = <<>>
    /\ overlayState = "closed"
    /\ overlayBounds = Null
    /\ lastMessage = Null
    /\ lastSet = [hotkey |-> "none", before |-> 0, after |-> 0]
    /\ lastOpen = "none"
    /\ eventsLeft = MaxEvents
    /\ IdleTags /\ IdleAbility /\ IdleChampion /\ IdleBadge /\ IdleSanitize /\ IdleOverlay
    /\ IdleLimiter /\ IdleChampSelect /\ IdleLcu

\* sendToOverlay(message): sent only when the background holds the overlay window
sendToOverlay(message) == lastMessage' = IF overlayWindow # Null THEN message ELSE lastMessage

\* hotkeys.onPressed: handleHotkey runs to its await of getSettings
HotkeyPressed ==
    \E hotkey \in Hotkeys :
        /\ eventsLeft > 0 /\ Len(tasks) < MaxTasks
        /\ eventsLeft' = eventsLeft - 1
        /\ tasks' = Append(tasks, Task("handleHotkey", "getSettings", hotkey, Null))
        /\ UNCHANGED <<pc, storedValue, overlayWindow, isGameRunning, isInChampSelect,
                       currentGamePhase, currentPhase, overlayState, overlayBounds,
                       lastMessage, lastSet, lastOpen, exceptBackground>>

\* handleHotkey after its getSettings: the switch, each case run to its first await
HandleHotkey ==
    \E n \in 1..Len(tasks) :
        /\ tasks[n].proc = "handleHotkey"
        /\ LET hotkey == tasks[n].name
           IN  tasks' = WithTask(tasks, n,
                   IF hotkey = "toggle_overlay"
                   THEN IF overlayWindow # Null
                        THEN Task("toggleOverlay", "getWindowState", hotkey, Null)
                        ELSE Task("openOverlayWindow", "obtainDeclaredWindow", "hotkey", Null)
                   ELSE IF hotkey = "lock_position"
                   THEN Task("toggleOverlayLock", "getSettings", hotkey, Null)
                   ELSE Task("adjustTransparency", "getSettings", hotkey, Null))
        /\ UNCHANGED <<pc, storedValue, overlayWindow, isGameRunning, isInChampSelect,
                       currentGamePhase, currentPhase, overlayState, overlayBounds,
                       lastMessage, lastSet, lastOpen, eventsLeft, exceptBackground>>

\* toggleOverlay after getWindowState: hide a shown window, restore any other
ToggleOverlay ==
    \E n \in 1..Len(tasks) :
        /\ tasks[n].proc = "toggleOverlay"
        /\ IF overlayState = "normal"
           THEN overlayState' = "hidden" /\ UNCHANGED lastOpen
           ELSE overlayState' = "normal" /\ lastOpen' = "hotkey"
        /\ tasks' = WithoutTask(tasks, n)
        /\ UNCHANGED <<pc, storedValue, overlayWindow, isGameRunning, isInChampSelect,
                       currentGamePhase, currentPhase, overlayBounds,
                       lastMessage, lastSet, eventsLeft, exceptBackground>>

\* toggleOverlayLock after getSettings: flip overlayLocked and save
ToggleOverlayLockSave ==
    \E n \in 1..Len(tasks) :
        /\ tasks[n].proc = "toggleOverlayLock" /\ tasks[n].at = "getSettings"
        /\ LET overlayLocked == JsBoolean(~IsTruthy(GetProperty(settingsNow, "overlayLocked")))
           IN  /\ storedValue' = savedSettings(SetProperty(settingsNow, "overlayLocked", overlayLocked))
               /\ tasks' = WithTask(tasks, n,
                               Task("toggleOverlayLock", "setSettings", tasks[n].name, overlayLocked))
        /\ UNCHANGED <<pc, overlayWindow, isGameRunning, isInChampSelect,
                       currentGamePhase, currentPhase, overlayState, overlayBounds,
                       lastMessage, lastSet, lastOpen, eventsLeft, exceptBackground>>

\* toggleOverlayLock after setSettings: notify the overlay
ToggleOverlayLockNotify ==
    \E n \in 1..Len(tasks) :
        /\ tasks[n].proc = "toggleOverlayLock" /\ tasks[n].at = "setSettings"
        /\ sendToOverlay(Message("SETTINGS_UPDATE",
                                  JsObject(<<Prop("overlayLocked", tasks[n].value)>>)))
        /\ tasks' = WithoutTask(tasks, n)
        /\ UNCHANGED <<pc, storedValue, overlayWindow, isGameRunning, isInChampSelect,
                       currentGamePhase, currentPhase, overlayState, overlayBounds,
                       lastSet, lastOpen, eventsLeft, exceptBackground>>

\* adjustTransparency(delta) after getSettings: move overlayOpacity by delta and save
AdjustTransparencySave ==
    \E n \in 1..Len(tasks) :
        /\ tasks[n].proc = "adjustTransparency" /\ tasks[n].at = "getSettings"
        /\ LET overlayOpacity ==
                   JsNumber(adjustedOpacity(GetProperty(settingsNow, "overlayOpacity").n,
                                            hotkeyDelta(tasks[n].name)))
               saved == savedSettings(SetProperty(settingsNow, "overlayOpacity", overlayOpacity))
           IN  /\ storedValue' = saved
               /\ lastSet' = [hotkey |-> tasks[n].name,
                              before |-> GetProperty(settingsNow, "overlayOpacity").n,
                              after |-> GetProperty(getSettings(getSucceeds, saved), "overlayOpacity").n]
               /\ tasks' = WithTask(tasks, n,
                               Task("adjustTransparency", "setSettings", tasks[n].name, overlayOpacity))
        /\ UNCHANGED <<pc, overlayWindow, isGameRunning, isInChampSelect,
                       currentGamePhase, currentPhase, overlayState, overlayBounds,
                       lastMessage, lastOpen, eventsLeft, exceptBackground>>

\* adjustTransparency after setSettings: notify the overlay
AdjustTransparencyNotify ==
    \E n \in 1..Len(tasks) :
        /\ tasks[n].proc = "adjustTransparency" /\ tasks[n].at = "setSettings"
        /\ sendToOverlay(Message("SETTINGS_UPDATE",
                                  JsObject(<<Prop("overlayOpacity", tasks[n].value)>>)))
        /\ tasks' = WithoutTask(tasks, n)
        /\ UNCHANGED <<pc, storedValue, overlayWindow, isGameRunning, isInChampSelect,
                       currentGamePhase, currentPhase, overlayState, overlayBounds,
                       lastSet, lastOpen, eventsLeft, exceptBackground>>

\* onGameLaunched, from onGameLaunched or onGameInfoUpdated: runs to its await of
\* lcuService.connect()
GameLaunched ==
    /\ eventsLeft > 0 /\ Len(tasks) < MaxTasks
    /\ eventsLeft' = eventsLeft - 1
    /\ isGameRunning' = TRUE
    /\ tasks' = Append(tasks, Task("onGameLaunched", "connect", "launch", Null))
    /\ UNCHANGED <<pc, storedValue, overlayWindow, isInChampSelect,
                   currentGamePhase, currentPhase, overlayState, overlayBounds,
                   lastMessage, lastSet, lastOpen, exceptBackground>>

\* onGameLaunched after connect(): it asks for the settings
OnGameLaunchedConnected ==
    \E n \in 1..Len(tasks) :
        /\ tasks[n].proc = "onGameLaunched" /\ tasks[n].at = "connect"
        /\ tasks' = WithTask(tasks, n, Task("onGameLaunched", "getSettings", "launch", Null))
        /\ UNCHANGED <<pc, storedValue, overlayWindow, isGameRunning, isInChampSelect,
                       currentGamePhase, currentPhase, overlayState, overlayBounds,
                       lastMessage, lastSet, lastOpen, eventsLeft, exceptBackground>>

\* onGameLaunched after getSettings: openOverlayWindow() when autoShowOverlay is set
OnGameLaunchedSettings ==
    \E n \in 1..Len(tasks) :
        /\ tasks[n].proc = "onGameLaunched" /\ tasks[n].at = "getSettings"
        /\ tasks' = IF IsTruthy(GetProperty(settingsNow, "autoShowOverlay"))
                    THEN WithTask(tasks, n,
                             Task("openOverlayWindow", "obtainDeclaredWindow", "launch", Null))
                    ELSE WithoutTask(tasks, n)
        /\ UNCHANGED <<pc, storedValue, overlayWindow, isGameRunning, isInChampSelect,
                       currentGamePhase, currentPhase, overlayState, overlayBounds,
                       lastMessage, lastSet, lastOpen, eventsLeft, exceptBackground>>

\* onGameClosed, with the disconnect() of the LCU service that forgets the phase
GameClosed ==
    /\ eventsLeft > 0 /\ isGameRunning
    /\ eventsLeft' = eventsLeft - 1
    /\ isGameRunning' = FALSE
    /\ isInChampSelect' = FALSE
    /\ currentPhase' = Null
    /\ overlayState' = IF overlayWindow # Null THEN "hidden" ELSE overlayState
    /\ UNCHANGED <<pc, storedValue, overlayWindow, currentGamePhase, tasks, overlayBounds,
                   lastMessage, lastSet, lastOpen, exceptBackground>>

\* LCUService.handleGameFlowPhase(phase) on a new phase, which calls
\* handleGamePhaseChange(phase); for ChampSelect that one calls openOverlayWindow()
GamePhaseChange ==
    \E phase \in GamePhases :
        /\ eventsLeft > 0 /\ isGameRunning
        /\ JsString(phase) # currentPhase
        /\ phase = "ChampSelect" => Len(tasks) < MaxTasks
        /\ eventsLeft' = eventsLeft - 1
        /\ currentPhase' = JsString(phase)
        /\ currentGamePhase' = JsString(phase)
        /\ sendToOverlay(Message("GAME_PHASE_CHANGE", JsObject(<<Prop("phase", JsString(phase))>>)))
        /\ isInChampSelect' = IF phase = "ChampSelect" THEN TRUE
                              ELSE IF phase \in {"None", "Lobby"} THEN FALSE
                              ELSE isInChampSelect
        /\ tasks' = IF phase = "ChampSelect"
                    THEN Append(tasks, Task("openOverlayWindow", "obtainDeclaredWindow", "phase", Null))
                    ELSE tasks
        /\ UNCHANGED <<pc, storedValue, overlayWindow, isGameRunning, overlayState,
                       overlayBounds, lastSet, lastOpen, exceptBackground>>

\* openOverlayWindow: the callback of obtainDeclaredWindow('overlay')
ObtainedOverlayWindow ==
    \E n \in 1..Len(tasks), success \in BOOLEAN :
        /\ tasks[n].proc = "openOverlayWindow" /\ tasks[n].at = "obtainDeclaredWindow"
        /\ IF success
           THEN /\ overlayWindow' = DeclaredOverlay
                /\ tasks' = WithTask(tasks, n,
                                Task("openOverlayWindow", "getSettings", tasks[n].name, Null))
           ELSE /\ tasks' = WithoutTask(tasks, n)
                /\ UNCHANGED overlayWindow
        /\ UNCHANGED <<pc, storedValue, isGameRunning, isInChampSelect,
                       currentGamePhase, currentPhase, overlayState, overlayBounds,
                       lastMessage, lastSet, lastOpen, eventsLeft, exceptBackground>>

\* openOverlayWindow after getSettings: the saved position and size, then restore
RestoreOverlayWindow ==
    \E n \in 1..Len(tasks) :
        /\ tasks[n].proc = "openOverlayWindow" /\ tasks[n].at = "getSettings"
        /\ overlayBounds' = [position |-> GetProperty(settingsNow, "overlayPosition"),
                             size |-> GetProperty(settingsNow, "overlaySize")]
        /\ overlayState' = "normal"
        /\ lastOpen' = tasks[n].name
        /\ tasks' = WithoutTask(tasks, n)
        /\ UNCHANGED <<pc, storedValue, overlayWindow, isGameRunning, isInChampSelect,
                       currentGamePhase, currentPhase, lastMessage, lastSet, eventsLeft,
                       exceptBackground>>

NextBackground ==
    \/ HotkeyPressed
    \/ HandleHotkey
    \/ ToggleOverlay
    \/ ToggleOverlayLockSave
    \/ ToggleOverlayLockNotify
    \/ AdjustTransparencySave
    \/ AdjustTransparencyNotify
    \/ GameLaunched
    \/ OnGameLaunchedConnected
    \/ OnGameLaunchedSettings
    \/ GameClosed
    \/ GamePhaseChange
    \/ ObtainedOverlayWindow
    \/ RestoreOverlayWindow

SpecBackground == InitBackground /\ [][NextBackground]_vars

-----------------------------------------------------------------------------
(* A rate limiter called at clock values that never go back *)

\* the largest maxRequests and windowMs, the last clock value, the calls made
MaxRequests == 2
MaxWindow == 2
MaxClock == 4
MaxCalls == 5

InitLimiter ==
    /\ pc = "isAllowed"
    /\ maxRequests \in 0..MaxRequests
    /\ windowMs \in 0..MaxWindow
    /\ requests = <<>>
    /\ clock = 0
    /\ allowedAt = <<>>
    /\ lastAllowed = [now |-> 0, returned |-> FALSE, before |-> 0]
    /\ callsLeft = MaxCalls
    /\ IdleTags /\ IdleAbility /\ IdleChampion
    /\ IdleBadge /\ IdleSanitize /\ IdleOverlay /\ IdleStorage /\ IdleBackground /\ IdleChampSelect /\ IdleLcu

\* time passes
Tick ==
    /\ clock < MaxClock
    /\ clock' = clock + 1
    /\ UNCHANGED <<pc, maxRequests, windowMs, requests, allowedAt, lastAllowed, callsLeft,
                   exceptLimiter>>

\* a call of the function that createRateLimiter returned
CallIsAllowed ==
    /\ callsLeft > 0
    /\ callsLeft' = callsLeft - 1
    /\ LET call == isAllowed(requests, clock, maxRequests, windowMs)
       IN  /\ requests' = call.requests
           /\ allowedAt' = IF call.returned THEN Append(allowedAt, clock) ELSE allowedAt
           /\ lastAllowed' =
                  [now |-> clock, returned |-> call.returned,
                   before |-> Cardinality({n \in 1..Len(allowedAt) :
                                              allowedAt[n] >= clock - windowMs})]
    /\ UNCHANGED <<pc, maxRequests, windowMs, clock, exceptLimiter>>

NextLimiter == Tick \/ CallIsAllowed

SpecLimiter == InitLimiter /\ [][NextLimiter]_vars

-----------------------------------------------------------------------------
(* sanitizeChampSelectData on champion-select data of any shape *)

\* the longest team and ban list, and the longest list of actions
MaxPlayers == 6
MaxActions == 51

\* the values found where an id is expected
IdValues ==
    {JsNumber(0), JsNumber(7), JsNumber(10000), JsNumber(10001), JsNumber(0 - 1),
     JsString("12abc"), JsString(" 42"), JsString("-3"), JsString("abc"), JsString(""),
     Null, Undefined, JsBoolean(TRUE), JsArray(<<JsNumber(9)>>), JsObject(<<>>)}

PlayerWith(id) ==
    JsObject(<<Prop("cellId", id), Prop("championId", id), Prop("championPickIntent", id),
               Prop("summonerId", id), Prop("assignedPosition", JsString("<bottom>")),
               Prop("spell1Id", id), Prop("spell2Id", id)>>)

ActionWith(id) ==
    JsObject(<<Prop("actorCellId", id), Prop("championId", id), Prop("completed", id),
               Prop("isAllyAction", JsBoolean(TRUE)), Prop("type", JsString("pick"))>>)

\* the values found where a player or an action is expected
NoRecords == {JsObject(<<>>), Null, Undefined, JsNumber(1), JsString("<b>")}

Repeat(v, count) == [k \in 1..count |-> v]

\* the values found where an array is expected
NoArrays == {Null, Undefined, JsString("team"), JsObject(<<>>)}

Teams ==
    {JsArray(Repeat(p, count)) :
        p \in {PlayerWith(id) : id \in IdValues} \cup NoRecords, count \in 0..MaxPlayers}
    \cup {JsArray(Repeat(PlayerWith(JsNumber(7)), 5) \o <<Null>>)}
    \cup NoArrays

BanLists ==
    {JsArray(Repeat(id, count)) : id \in IdValues, count \in {1, MaxPlayers}}
    \cup {JsArray(<<JsNumber(0), JsNumber(3), Null, JsNumber(10001), JsNumber(5), JsNumber(8)>>)}
    \cup NoArrays

BanValues ==
    {JsObject(<<Prop("myTeam", b), Prop("theirTeam", b)>>) : b \in BanLists}
    \cup {JsObject(<<Prop("myTeam", JsArray(<<JsNumber(3)>>))>>), Null, Undefined, JsString("bans")}

ActionLists ==
    {JsArray(Repeat(a, count)) :
        a \in {ActionWith(JsNumber(7)), ActionWith(JsString("abc")),
                JsArray(<<ActionWith(JsNumber(7))>>), Null, JsNumber(1)},
        count \in {0, 1, MaxActions - 1, MaxActions}}
    \cup {JsArray(Repeat(ActionWith(JsNumber(7)), 50) \o <<Null>>)}
    \cup NoArrays

\* champion-select data with one key set
DataWith(k, v) == JsObject(<<Prop(k, v)>>)

\* the arguments of sanitizeChampSelectData: values that are no objects, arrays,
\* and objects with any value under one key or under two
ChampSelectInputs ==
    {Undefined, Null, JsNumber(0), JsNumber(5), JsString(""), JsString("session"),
     JsBoolean(TRUE), JsArray(<<>>), JsArray(<<JsNumber(1)>>), JsObject(<<>>)}
    \cup {DataWith("myTeam", v) : v \in Teams}
    \cup {DataWith("theirTeam", v) : v \in Teams}
    \cup {DataWith("bans", v) : v \in BanValues}
    \cup {DataWith("actions", v) : v \in ActionLists}
    \cup {DataWith("localPlayerCellId", v) : v \in IdValues}
    \cup {DataWith("phase", v) : v \in IdValues \cup {JsString("<PLANNING>")}}
    \cup {JsObject(<<Prop("myTeam", JsArray(Repeat(p, MaxPlayers))),
                      Prop("actions", JsArray(Repeat(a, MaxActions)))>>) :
             p \in {PlayerWith(JsNumber(10001)), Null},
             a \in {ActionWith(JsNumber(0 - 1)), Undefined}}

InitChampSelect ==
    /\ pc = "sanitizeChampSelectData"
    /\ sessionData \in ChampSelectInputs
    /\ champSelect = Unused
    /\ IdleTags /\ IdleAbility /\ IdleChampion
    /\ IdleBadge /\ IdleSanitize /\ IdleOverlay /\ IdleStorage /\ IdleBackground /\ IdleLimiter /\ IdleLcu

CallSanitizeChampSelectData ==
    /\ pc = "sanitizeChampSelectData"
    /\ champSelect' = sanitizeChampSelectData(sessionData)
    /\ pc' = "returned"
    /\ UNCHANGED <<sessionData, exceptChampSelect>>

NextChampSelect == CallSanitizeChampSelectData

SpecChampSelect == InitChampSelect /\ [][NextChampSelect]_vars

-----------------------------------------------------------------------------
(* The LCU service under the calls of its owner, the answers of the League client
   and its own timers.  Every callback runs alone; callbacks come in any order. *)

\* the calls of connect() and disconnect() the owner makes, the sockets alive at once
MaxOwnerCalls == 2
MaxSockets == 2

InitLcu ==
    /\ pc = "lcu"
    /\ credentials = Null
    /\ isConnected = FALSE
    /\ ws = 0
    /\ reconnectAttempts = 0
    /\ pollingInterval = Null
    /\ currentSession = Null
    /\ currentPhase = Null
    /\ sockets = [id \in 1..MaxSockets |-> "free"]
    /\ connects = <<>>
    /\ reconnectTimers = 0
    /\ disconnected = FALSE
    /\ scheduledSinceConnected = 0
    /\ ownerCallsLeft = MaxOwnerCalls
    /\ IdleTags /\ IdleAbility /\ IdleChampion
    /\ IdleBadge /\ IdleSanitize /\ IdleOverlay /\ IdleStorage /\ IdleController
    /\ IdleLimiter /\ IdleChampSelect

\* the rest of connect() once connectWebSocket has resolved, for the call n with
\* the sockets socks and this.ws = ref: startPolling(), isConnected and the counter
ConnectResumes(n, socks, ref) ==
    /\ pollingInterval' = PollingTimer
    /\ isConnected' = TRUE
    /\ reconnectAttempts' = 0
    /\ scheduledSinceConnected' = 0
    /\ connects' = Resumable(socks, WithoutConnect(connects, n))
    /\ sockets' = Collect(socks, ref, WithoutConnect(connects, n))

\* the owner calls connect(), which runs to its await of getLCUCredentials
OwnerConnect ==
    /\ ownerCallsLeft > 0
    /\ ownerCallsLeft' = ownerCallsLeft - 1
    /\ connects' = Append(connects, Connect("getLCUCredentials", 0, FALSE))
    /\ disconnected' = FALSE
    /\ UNCHANGED <<pc, credentials, isConnected, ws, reconnectAttempts, pollingInterval,
                   currentSession, currentPhase, sockets, reconnectTimers,
                   scheduledSinceConnected, exceptLcu>>

\* the owner calls disconnect()
OwnerDisconnect ==
    /\ ownerCallsLeft > 0
    /\ ownerCallsLeft' = ownerCallsLeft - 1
    /\ isConnected' = FALSE
    /\ credentials' = Null
    /\ currentSession' = Null
    /\ currentPhase' = Null
    /\ ws' = 0
    /\ LET closing == IF ws # 0 /\ sockets[ws] \in {"connecting", "open"}
                      THEN [sockets EXCEPT ![ws] = "closing"] ELSE sockets
       IN  /\ sockets' = Collect(closing, 0, connects)
           /\ connects' = Resumable(closing, connects)
    /\ pollingInterval' = Null
    /\ disconnected' = TRUE
    /\ UNCHANGED <<pc, reconnectAttempts, reconnectTimers, scheduledSinceConnected, exceptLcu>>

\* connect() after getLCUCredentials found nothing: scheduleReconnect()
CredentialsMissing ==
    \E n \in 1..Len(connects) :
        /\ connects[n].at = "getLCUCredentials"
        /\ credentials' = Null
        /\ LET retry == scheduleReconnect(reconnectAttempts)
           IN  /\ reconnectAttempts' = retry.reconnectAttempts
               /\ reconnectTimers' = IF retry.scheduled THEN reconnectTimers + 1 ELSE reconnectTimers
               /\ scheduledSinceConnected' = IF retry.scheduled THEN scheduledSinceConnected + 1
                                             ELSE scheduledSinceConnected
        /\ connects' = WithoutConnect(connects, n)
        /\ UNCHANGED <<pc, isConnected, ws, pollingInterval, currentSession, currentPhase,
                       sockets, disconnected, ownerCallsLeft, exceptLcu>>

\* connect() after getLCUCredentials found the credentials: connectWebSocket()
\* makes a socket and waits for it
CredentialsFound ==
    \E n \in 1..Len(connects), id \in 1..MaxSockets :
        /\ connects[n].at = "getLCUCredentials"
        /\ LET kept == Collect(sockets, 0, connects)   \* this.ws lets go of its socket
           IN  /\ kept[id] = "free"
               /\ \A other \in 1..(id - 1) : kept[other] # "free"
               /\ sockets' = [kept EXCEPT ![id] = "connecting"]
        /\ credentials' = LcuCredentials
        /\ ws' = id
        /\ connects' = [connects EXCEPT ![n] = Connect("connectWebSocket", id, TRUE)]
        /\ UNCHANGED <<pc, isConnected, reconnectAttempts, pollingInterval, currentSession,
                       currentPhase, reconnectTimers, disconnected, scheduledSinceConnected,
                       ownerCallsLeft, exceptLcu>>

\* the same when new WebSocket throws: connectWebSocket resolves at once and
\* connect() goes on with the polling alone
CredentialsFoundNoSocket ==
    \E n \in 1..Len(connects) :
        /\ connects[n].at = "getLCUCredentials"
        /\ credentials' = LcuCredentials
        /\ ws' = ws
        /\ ConnectResumes(n, sockets, ws)
        /\ UNCHANGED <<pc, currentSession, currentPhase, reconnectTimers, disconnected,
                       ownerCallsLeft, exceptLcu>>

\* ws.onopen of a socket: the call of connect() that waits for it goes on
SocketOpens ==
    \E id \in 1..MaxSockets :
        /\ sockets[id] = "connecting"
        /\ LET opened == [sockets EXCEPT ![id] = "open"]
           IN  IF \E n \in 1..Len(connects) : connects[n].socket = id
               THEN /\ ConnectResumes(CHOOSE n \in 1..Len(connects) : connects[n].socket = id, opened, ws)
                    /\ UNCHANGED <<ws>>
               ELSE /\ sockets' = opened
                    /\ UNCHANGED <<ws, pollingInterval, isConnected, reconnectAttempts,
                                   scheduledSinceConnected, connects>>
        /\ UNCHANGED <<pc, credentials, currentSession, currentPhase, reconnectTimers,
                       disconnected, ownerCallsLeft, exceptLcu>>

\* ws.onclose of a socket, closed by the client or by disconnect():
\* scheduleReconnect() when isConnected
SocketCloses ==
    \E id \in 1..MaxSockets :
        /\ sockets[id] \in {"connecting", "open", "closing"}
        /\ LET closed == [sockets EXCEPT ![id] = "closed"]
               retry == IF isConnected THEN scheduleReconnect(reconnectAttempts)
                        ELSE [reconnectAttempts |-> reconnectAttempts, scheduled |-> FALSE]
           IN  /\ connects' = Resumable(closed, connects)
               /\ sockets' = Collect(closed, ws, Resumable(closed, connects))
               /\ reconnectAttempts' = retry.reconnectAttempts
               /\ reconnectTimers' = IF retry.scheduled THEN reconnectTimers + 1 ELSE reconnectTimers
               /\ scheduledSinceConnected' = IF retry.scheduled THEN scheduledSinceConnected + 1
                                             ELSE scheduledSinceConnected
        /\ UNCHANGED <<pc, credentials, isConnected, ws, pollingInterval, currentSession,
                       currentPhase, disconnected, ownerCallsLeft, exceptLcu>>

\* the 5 s timeout of connectWebSocket for a call that still waits: it resolves
\* when this.ws is not open, does nothing when it is, and throws when this.ws is null
ConnectTimeout ==
    \E n \in 1..Len(connects) :
        /\ connects[n].at = "connectWebSocket" /\ connects[n].timeout
        /\ IF ws # 0 /\ sockets[ws] # "open"
           THEN ConnectResumes(n, sockets, ws)
           ELSE /\ connects' = Resumable(sockets, [connects EXCEPT ![n].timeout = FALSE])
                /\ sockets' = Collect(sockets, ws,
                                      Resumable(sockets, [connects EXCEPT ![n].timeout = FALSE]))
                /\ UNCHANGED <<pollingInterval, isConnected, reconnectAttempts,
                               scheduledSinceConnected>>
        /\ UNCHANGED <<pc, credentials, ws, currentSession, currentPhase, reconnectTimers,
                       disconnected, ownerCallsLeft, exceptLcu>>

\* a timer of scheduleReconnect fires: connect()
ReconnectTimerFires ==
    /\ reconnectTimers > 0
    /\ reconnectTimers' = reconnectTimers - 1
    /\ connects' = Append(connects, Connect("getLCUCredentials", 0, FALSE))
    /\ UNCHANGED <<pc, credentials, isConnected, ws, reconnectAttempts, pollingInterval,
                   currentSession, currentPhase, sockets, disconnected,
                   scheduledSinceConnected, ownerCallsLeft, exceptLcu>>

\* the client is heard, by an open socket or by a poll that has the credentials
ClientHeard ==
    \/ \E id \in 1..MaxSockets : sockets[id] = "open"
    \/ pollingInterval # Null /\ credentials # Null

\* handleChampSelectSession(data) with a session
ChampSelectSession ==
    /\ ClientHeard
    /\ currentSession = Null
    /\ currentSession' = [phase |-> "unknown"]
    /\ UNCHANGED <<pc, credentials, isConnected, ws, reconnectAttempts, pollingInterval,
                   currentPhase, sockets, connects, reconnectTimers, disconnected,
                   scheduledSinceConnected, ownerCallsLeft, exceptLcu>>

\* handleGameFlowPhase(phase) with the phase of champion select
GameFlowPhase ==
    /\ ClientHeard
    /\ currentPhase # JsString("ChampSelect")
    /\ currentPhase' = JsString("ChampSelect")
    /\ UNCHANGED <<pc, credentials, isConnected, ws, reconnectAttempts, pollingInterval,
                   currentSession, sockets, connects, reconnectTimers, disconnected,
                   scheduledSinceConnected, ownerCallsLeft, exceptLcu>>

NextLcu ==
    \/ OwnerConnect
    \/ OwnerDisconnect
    \/ CredentialsMissing
    \/ CredentialsFound
    \/ CredentialsFoundNoSocket
    \/ SocketOpens
    \/ SocketCloses
    \/ ConnectTimeout
    \/ ReconnectTimerFires
    \/ ChampSelectSession
    \/ GameFlowPhase

SpecLcu == InitLcu /\ [][NextLcu]_vars

-----------------------------------------------------------------------------
(* Properties of the tag classifier, checked under SpecTags *)

\* the labels of an array of classifications
LabelsOf(cls) == [k \in 1..Len(cls) |-> cls[k].ccType]

\* the place of a label in the global priority: the first index of priorityOrder
\* whose tag carries the label, or past the end for a label no listed tag carries
LabelRank(label) ==
    LET at == {k \in 1..Len(priorityOrder) :
                  TableEntry(ccClassifications, priorityOrder[k]) # Undefined
                  /\ ccClassifications[priorityOrder[k]].ccType = label}
    IN  IF at = {} THEN Len(priorityOrder) + 1
        ELSE CHOOSE k \in at : \A m \in at : k <= m

\* the arrays that hold the elements of arr in another order
Reorderings(arr) ==
    {[k \in 1..Len(arr) |-> arr[p[k]]] : p \in Permutations(1..Len(arr))}

\* C1: classifyThreatTags returns the same array for every ordering of its tags,
\* ordered by the global priority list and not by the input; the tags KNOCKUP and
\* SLOW, in either order, give exactly [Knockup, Slow].
C1_PriorityOrderNotInputOrder ==
    pc = "returned" =>
        /\ \A other \in Reorderings(threatTags) :
              classifyThreatTags(other) = matchedClassifications
        /\ \A k, l \in 1..Len(matchedClassifications) :
              k < l => LabelRank(matchedClassifications[k].ccType)
                          <= LabelRank(matchedClassifications[l].ccType)
        /\ threatTags \in {<<"KNOCKUP", "SLOW">>, <<"SLOW", "KNOCKUP">>} =>
              /\ LabelsOf(matchedClassifications) = <<"Knockup", "Slow">>
              /\ matchedClassifications = <<ccClassifications.KNOCKUP, ccClassifications.SLOW>>

\* C1 witness: SLOW before KNOCKUP in the input, Knockup before Slow in the output
C1_Witness ==
    /\ pc = "returned"
    /\ threatTags = <<"SLOW", "KNOCKUP">>
    /\ LabelsOf(matchedClassifications) = <<"Knockup", "Slow">>

\* the tags of the input that the classification table knows
RecognisedTags(tags) == Range(tags) \cap DOMAIN ccClassifications

\* C2: every tag of the table is in the priority list, so the classification of every
\* recognised tag of the input is emitted, one classification per recognised tag.
C2_EveryRecognisedTagEmitted ==
    pc = "returned" =>
        /\ \A t \in RecognisedTags(threatTags) :
              includes(matchedClassifications, ccClassifications[t])
        /\ Len(matchedClassifications) = Cardinality(RecognisedTags(threatTags))

-----------------------------------------------------------------------------
(* Properties of the text classifier, checked under SpecText *)

\* the keyword groups of the cascade, from the most to the least threatening:
\* 1 suppression, 2 hard CC that Cleanse does not remove, 3 hard CC that it removes,
\* 4 soft CC, 5 high, 6 medium, 7 low
GroupOfLabel(label) ==
    IF label = "Suppression" THEN 1
    ELSE IF label \in {"Airborne", "Pull", "Nearsight"} THEN 2
    ELSE IF label \in {"Stun", "Root", "Charm", "Fear", "Taunt", "Sleep"} THEN 3
    ELSE IF label \in {"Slow", "Silence", "Blind", "Disarm", "Cripple"} THEN 4
    ELSE IF label \in {"Mobility", "Burst", "Stealth"} THEN 5
    ELSE IF label \in {"Shield", "Poke"} THEN 6
    ELSE 7

\* the description desc (or the name) holds a keyword of group g
MatchesGroup(g, desc, name) ==
    IF g = 1 THEN strIncludes(desc, "suppress")
    ELSE IF g = 2 THEN
        \/ strIncludes(desc, "knock") \/ strIncludes(desc, "airborne")
        \/ strIncludes(name, "knock") \/ strIncludes(desc, "pull")
        \/ strIncludes(desc, "drag") \/ strIncludes(desc, "nearsight")
        \/ strIncludes(desc, "blind zone")
    ELSE IF g = 3 THEN
        \/ strIncludes(desc, "stun") \/ strIncludes(desc, "root")
        \/ strIncludes(desc, "immobilize") \/ strIncludes(desc, "snare")
        \/ strIncludes(desc, "charm") \/ strIncludes(desc, "fear")
        \/ strIncludes(desc, "flee") \/ strIncludes(desc, "taunt")
        \/ strIncludes(desc, "sleep") \/ strIncludes(desc, "drowsy")
    ELSE IF g = 4 THEN
        \/ strIncludes(desc, "slow") \/ strIncludes(desc, "silence")
        \/ strIncludes(desc, "blind") \/ strIncludes(desc, "disarm")
        \/ strIncludes(desc, "cripple")
        \/ (strIncludes(desc, "attack speed") /\ strIncludes(desc, "reduc"))
    ELSE IF g = 5 THEN
        \/ strIncludes(desc, "dash") \/ strIncludes(desc, "blink")
        \/ strIncludes(desc, "leap") \/ strIncludes(name, "dash")
        \/ strIncludes(name, "leap") \/ strIncludes(desc, "burst")
        \/ (strIncludes(desc, "damage") /\ strIncludes(desc, "bonus"))
        \/ strIncludes(desc, "maximum health") \/ strIncludes(desc, "missing health")
        \/ strIncludes(desc, "stealth") \/ strIncludes(desc, "invisible")
        \/ strIncludes(desc, "camouflage")
    ELSE IF g = 6 THEN strIncludes(desc, "shield") \/ strIncludes(desc, "poke")
    ELSE strIncludes(desc, "heal") \/ strIncludes(desc, "regenerat")

\* the groups of which the spell s holds a keyword
GroupsMatched(s) ==
    {g \in 1..7 : MatchesGroup(g, LowerField(s, "description"), LowerField(s, "name"))}

\* C3: the cascade tests suppression, then hard CC that Cleanse does not remove, then
\* hard CC that it removes, then soft CC, then high, medium and low threats: the
\* classification returned belongs to the earliest group of which the description
\* holds a keyword.
C3_EarliestGroupWins ==
    pc = "returned" =>
        LET groups == GroupsMatched(spell)
        IN  groups # {} =>
                /\ ~IsNull(descClassification)
                /\ \A g \in groups : GroupOfLabel(descClassification.ccType) <= g

\* the description desc holds "stun" and no keyword tested before it
StunComesFirst(desc, name) ==
    /\ strIncludes(desc, "stun")
    /\ ~strIncludes(desc, "suppress")
    /\ ~MatchesGroup(2, desc, name)

\* C4: a description that holds "stun" and no keyword of an earlier group is
\* classified Stun, of kind hard, cleansable.
C4_StunIsHardCleansable ==
    (pc = "returned"
        /\ StunComesFirst(LowerField(spell, "description"), LowerField(spell, "name"))) =>
        /\ ~IsNull(descClassification)
        /\ descClassification.ccType = "Stun"
        /\ descClassification.type = "hard"
        /\ descClassification.cleansable = TRUE

-----------------------------------------------------------------------------
(* Properties of classifyAbility, checked under SpecAbility *)

\* the ability has a curated entry at its index
HasCuratedEntry == AbilitySummary(summaryData, abilityIndex) # Undefined

\* the classifications the curated tags of the ability give
TagBased ==
    IF HasCuratedEntry
    THEN classifyThreatTags(ThreatOf(AbilitySummary(summaryData, abilityIndex)))
    ELSE <<>>

CCKinds == {"hard", "soft", "suppression"}

\* classifyCC was called and returned a classification of a CC kind
TextGaveCC ==
    /\ ccCalls > 0
    /\ ~IsNull(descClassification)
    /\ descClassification.type \in CCKinds

\* the spell carries no text: neither a description nor a name
NoText(s) == "description" \notin DOMAIN s /\ "name" \notin DOMAIN s

\* C5: for an ability with no description (and no name to read in its place) and no
\* curated entry classifyAbility returns an empty array, without a null element,
\* whatever the fallback flag.
C5_NoDataNoClassification ==
    (pc = "returned" /\ NoText(spell) /\ ~HasCuratedEntry) =>
        classifications = <<>>

\* C6: a CC classification from the text classifier is returned only when the
\* fallback flag is set and the ability has no curated entry; with a curated entry,
\* even one whose tags give nothing, none is returned.
C6_TextCCOnlyWithoutCuratedEntry ==
    (pc = "returned" /\ TextGaveCC) =>
        /\ includes(classifications, descClassification) =>
              (allowFallbackCC /\ ~HasCuratedEntry)
        /\ HasCuratedEntry => classifications = <<>>

\* C6 witness: a curated entry without classification, a description that reads as
\* CC, the flag set: nothing is returned
C6_Witness ==
    /\ pc = "returned"
    /\ HasCuratedEntry
    /\ allowFallbackCC
    /\ TextGaveCC
    /\ classifications = <<>>

\* C7: when the curated tags give at least one classification, classifyAbility
\* returns exactly those and never calls classifyCC.
C7_CuratedTagsTakePrecedence ==
    (pc = "returned" /\ Len(TagBased) > 0) =>
        /\ classifications = TagBased
        /\ ccCalls = 0

\* C7 witness: curated tags give Slow, the description reads as a shield, the flag is set
C7_Witness ==
    /\ pc = "returned"
    /\ allowFallbackCC
    /\ Len(TagBased) > 0
    /\ LabelsOf(classifications) = <<"Slow">>
    /\ ~IsNull(classifyCC(spell))
    /\ classifyCC(spell).ccType = "Shield"

\* C8: when the curated tags give nothing and the text classifier returns Shield,
\* Sustain, Burst, Poke, Stealth or Mobility, classifyAbility returns exactly that
\* classification, whatever the flag.
C8_NonCCTextAlwaysAccepted ==
    (pc = "returned" /\ Len(TagBased) = 0) =>
        LET c == classifyCC(spell)
        IN  (~IsNull(c) /\ c.ccType \in {"Shield", "Sustain", "Burst", "Poke", "Stealth", "Mobility"})
                => /\ classifications = <<c>>
                   /\ ccCalls = 1

\* C8 witness: a curated entry without classification, the flag not set, Mobility
\* read from the description
C8_Witness ==
    /\ pc = "returned"
    /\ HasCuratedEntry
    /\ ~allowFallbackCC
    /\ Len(classifications) = 1
    /\ classifications[1].ccType = "Mobility"

-----------------------------------------------------------------------------
(* Properties of the champion-level aggregation, checked under SpecChampion *)

\* the arrays perAbility[1], perAbility[2], ... joined, from index k on
RECURSIVE Joined(_, _)
Joined(perAbility, k) ==
    IF k > Len(perAbility) THEN <<>> ELSE perAbility[k] \o Joined(perAbility, k + 1)

\* what classifyAbility gives for each spell of the champion, in Q, W, E, R order
WebPerAbility ==
    [k \in 1..Len(spells) |-> classifyAbility(spells[k], summaryData, k, TRUE)]

\* every classification the web app meets, in the order it meets them
WebMet == SelectSeq(Joined(WebPerAbility, 1), LAMBDA c : ~IsNull(c))

\* what analyzeAbility gives for each curated ability, in Q, W, E, R order
OverlayPerAbility ==
    LET abilities == SummaryAbilities(summaryData)
    IN  [k \in 1..Len(abilities) |-> analyzeAbility(abilities[k], k)]

OverlayMet == Joined(OverlayPerAbility, 1)

\* the first element of arr that carries the label, read by LabelIn
FirstWithLabel(arr, LabelIn(_), label) ==
    arr[CHOOSE k \in 1..Len(arr) :
            LabelIn(arr[k]) = label /\ \A m \in 1..(k - 1) : LabelIn(arr[m]) # label]

CcTypeOf(c) == c.ccType
LabelOf(t) == t.label

NoLabelTwice(ts) ==
    \A k, l \in 1..Len(ts) : k # l => ts[k].label # ts[l].label

\* C9: the champion-level aggregate holds each label at most once, whether the label
\* comes from several abilities or from several tags, and the entry kept is the
\* first one met in Q, W, E, R order (web app and overlay).
C9_OneEntryPerLabelFirstKept ==
    pc = "returned" =>
        /\ NoLabelTwice(threats)
        /\ app = "web" =>
              LET met == WebMet
              IN  \A k \in 1..Len(threats) :
                      /\ \E m \in 1..Len(met) : met[m].ccType = threats[k].label
                      /\ threats[k] = ThreatOfClassification(
                                          FirstWithLabel(met, CcTypeOf, threats[k].label))
        /\ app = "overlay" =>
              LET met == OverlayMet
              IN  \A k \in 1..Len(threats) :
                      "abilityIndex" \in DOMAIN threats[k] =>
                          /\ \E m \in 1..Len(met) : met[m].label = threats[k].label
                          /\ threats[k] = FirstWithLabel(met, LabelOf, threats[k].label)

\* the number of elements of ts with the given label
CountLabel(ts, label) == Cardinality({k \in 1..Len(ts) : ts[k].label = label})

\* C9 witness: each of four abilities gives Shield, from the description, from the
\* tag SHIELD_PEEL or from the tag SHIELD, and the aggregate holds Shield once
C9_Witness ==
    /\ pc = "returned"
    /\ app = "web"
    /\ Len(spells) = 4
    /\ LET per == WebPerAbility
       IN  \A k \in 1..4 : \E m \in 1..Len(per[k]) :
               ~IsNull(per[k][m]) /\ per[k][m].ccType = "Shield"
    /\ \E k \in 1..4 : "SHIELD" \in Range(ThreatOf(AbilitySummary(summaryData, k)))
    /\ \E k \in 1..4 : "SHIELD_PEEL" \in Range(ThreatOf(AbilitySummary(summaryData, k)))
    /\ CountLabel(threats, "Shield") = 1

\* C10, as claimed: the array analyzeThreats returns is sorted by the global priority,
\* whichever ability each classification comes from.
C10_WebPrioritySorted ==
    (pc = "returned" /\ app = "web") =>
        \A k, l \in 1..Len(threats) :
            k < l => LabelRank(threats[k].label) <= LabelRank(threats[l].label)

\* the first of the abilities, in Q, W, E, R order, whose classifications per[n]
\* hold the label
Origin(per, label) ==
    CHOOSE k \in 1..Len(per) :
        LET Gives(n) == \E m \in 1..Len(per[n]) :
                            ~IsNull(per[n][m]) /\ per[n][m].ccType = label
        IN  Gives(k) /\ \A n \in 1..(k - 1) : ~Gives(n)

\* C10, amended: the array analyzeThreats returns is ordered by ability first (the
\* first ability, in Q, W, E, R order, that gives each label) and by the global
\* priority only among the labels that the same ability gives.
C10_AbilityOrderThenPriority ==
    (pc = "returned" /\ app = "web") =>
        LET per == WebPerAbility
            origin == [k \in 1..Len(threats) |-> Origin(per, threats[k].label)]
        IN  \A k, l \in 1..Len(threats) :
                k < l =>
                    \/ origin[k] < origin[l]
                    \/ /\ origin[k] = origin[l]
                       /\ LabelRank(threats[k].label) <= LabelRank(threats[l].label)

\* C10 witness: an earlier ability's Shield is returned before a later ability's Slow
C10_Witness ==
    /\ pc = "returned"
    /\ app = "web"
    /\ Len(threats) = 2
    /\ threats[1].label = "Shield"
    /\ threats[2].label = "Slow"
    /\ Origin(WebPerAbility, "Shield") < Origin(WebPerAbility, "Slow")

-----------------------------------------------------------------------------
(* Suppression in the text classifier *)

\* the description of the examined spell, lower-cased as classifyCC reads it
DescOf(s) == LowerField(s, "description")

\* C11: whenever the description contains "suppress", classifyCC returns the
\* Suppression classification, with qssOnly true and cleansable false, whatever
\* other crowd-control keyword the description contains as well
C11_SuppressFirst ==
    (pc = "returned"
        /\ strIncludes(DescOf(spell), "suppress"))
    => /\ ~IsNull(descClassification)
       /\ descClassification.ccType = "Suppression"
       /\ descClassification.type = "suppression"
       /\ "qssOnly" \in DOMAIN descClassification
       /\ descClassification.qssOnly = TRUE
       /\ descClassification.cleansable = FALSE

\* a returned call whose description holds both "suppress" and "stun"
C11_Witness ==
    /\ pc = "returned"
    /\ strIncludes(DescOf(spell), "suppress")
    /\ strIncludes(DescOf(spell), "stun")
    /\ descClassification.ccType = "Suppression"

-----------------------------------------------------------------------------
(* Threat classes in the output of classifyThreatTags *)

\* the class of a classification, from the most to the least threatening:
\* suppression and non-cleansable hard CC, cleansable hard CC, soft CC, then the
\* non-CC threats high, medium, low
ClassRank(c) ==
    IF c.type = "suppression" \/ (c.type = "hard" /\ ~c.cleansable) THEN 0
    ELSE IF c.type = "hard" THEN 1
    ELSE IF c.type = "soft" THEN 2
    ELSE IF c.type = "high" THEN 3
    ELSE IF c.type = "medium" THEN 4
    ELSE 5

\* C12: in the output of classifyThreatTags no classification of a later class
\* precedes one of an earlier class
C12_ClassesInRankOrder ==
    (pc = "returned")
    => \A a, b \in 1..Len(matchedClassifications) :
           a < b => ClassRank(matchedClassifications[a]) <= ClassRank(matchedClassifications[b])

\* a returned call whose input lists a tag of a later class before a tag of an
\* earlier class, both emitted
C12_Witness ==
    /\ pc = "returned"
    /\ Len(matchedClassifications) = 2 /\ Len(threatTags) = 2
    /\ threatTags[1] \in DOMAIN ccClassifications
    /\ threatTags[2] \in DOMAIN ccClassifications
    /\ ClassRank(ccClassifications[threatTags[1]]) > ClassRank(ccClassifications[threatTags[2]])
    /\ ClassRank(matchedClassifications[1]) < ClassRank(matchedClassifications[2])

-----------------------------------------------------------------------------
(* The overlay's display order, checked under SpecChampion *)

\* the place in PRIORITY_ORDER of the first tag that the table gives the label
PriorityOfLabel(label) ==
    CHOOSE k \in 1..Len(PRIORITY_ORDER) :
        /\ CC_CLASSIFICATIONS[PRIORITY_ORDER[k]].label = label
        /\ \A m \in 1..(k - 1) : CC_CLASSIFICATIONS[PRIORITY_ORDER[m]].label # label

\* C13, as claimed: of any two threats analyzeChampion returns from the curated
\* tags, the one whose tag is earlier in PRIORITY_ORDER comes first, so Suppression
\* precedes Stun whatever the order of the tags in the curated data.
C13_OverlayFollowsPriorityOrder ==
    (pc = "returned" /\ app = "overlay") =>
        \A k, l \in 1..Len(threats) :
            (k < l /\ "abilityIndex" \in DOMAIN threats[k] /\ "abilityIndex" \in DOMAIN threats[l])
            => PriorityOfLabel(threats[k].label) <= PriorityOfLabel(threats[l].label)

-----------------------------------------------------------------------------
(* Unknown tags, checked under SpecTagClassifiers *)

\* the tags of the array that the called classifier's table knows
KnownTagsOf(tags) ==
    SelectSeq(tags, LAMBDA t : IF app = "web" THEN t \in DOMAIN ccClassifications
                                              ELSE t \in DOMAIN CC_CLASSIFICATIONS)

\* what the called classifier returns for the tags
TagClassifier(tags) ==
    IF app = "web" THEN classifyThreatTags(tags)
    ELSE analyzeAbility([threat |-> tags], abilityIndex)

-----------------------------------------------------------------------------
(* Colors of the classification records, checked under SpecRecords *)

\* the color that belongs to a kind
KindColor(kind) == IF kind = "suppression" THEN "hard" ELSE kind

\* the colors that the three tables give to the tag
TableColors(tag) ==
    {ccClassifications[t].color : t \in {tag} \cap DOMAIN ccClassifications}
    \cup {CC_CLASSIFICATIONS[t].color : t \in {tag} \cap DOMAIN CC_CLASSIFICATIONS}
    \cup {threatMap[t].color : t \in {tag} \cap DOMAIN threatMap}

\* a produced record reduced to the tags it stands for, its kind and its color
Produced(tags, kinds, color) == [tags |-> tags, kinds |-> kinds, color |-> color]

\* the records the returned call has produced
ProducedRecords ==
    IF producer = "classifyThreatTags"
    THEN {Produced({t \in DOMAIN ccClassifications : ccClassifications[t] = r}, {r.type}, r.color) :
             r \in Range(matchedClassifications)}
    ELSE IF producer = "classifyCC"
    THEN IF IsNull(descClassification) THEN {}
         ELSE {Produced({t \in DOMAIN ccClassifications :
                            ccClassifications[t].ccType = descClassification.ccType},
                        {descClassification.type}, descClassification.color)}
    ELSE IF producer = "analyzeAbility"
    THEN {Produced({t \in DOMAIN CC_CLASSIFICATIONS :
                       CC_CLASSIFICATIONS[t].label = r.label}, {r.type}, r.color) :
             r \in Range(matchedClassifications)}
    ELSE {Produced({summaryData.abilities[k].threat[1]}, {}, championAbilities[k].threat.color) :
             k \in {n \in 1..Len(championAbilities) :
                       /\ "threat" \in DOMAIN championAbilities[n]
                       /\ ~IsNull(championAbilities[n].threat)}}

\* C15, as claimed: in every record a producer returns, the color is the color of
\* the record's kind, and it is the color that every table gives to the record's tag
C15_ColorFollowsKindAndTag ==
    pc = "returned" =>
        \A r \in ProducedRecords :
            /\ \A kind \in r.kinds : r.color = KindColor(kind)
            /\ \A t \in r.tags : \A c \in TableColors(t) : c = r.color

-----------------------------------------------------------------------------
(* Prototype pollution, checked under SpecSanitize *)

\* the keys of the own properties of the untrusted value, at every depth
RECURSIVE OwnKeys(_)
OwnKeys(o) ==
    IF o = Null \/ o = Undefined THEN {}
    ELSE IF o.t = "array" THEN UNION {OwnKeys(o.items[n]) : n \in 1..Len(o.items)}
    ELSE IF o.t = "object"
    THEN UNION {{o.props[n].key} \cup OwnKeys(o.props[n].value) : n \in 1..Len(o.props)}
    ELSE {}

\* every object of the value has the prototype of an object literal
RECURSIVE PrototypeIntact(_)
PrototypeIntact(o) ==
    IF o = Null \/ o = Undefined THEN TRUE
    ELSE IF o.t = "array" THEN \A n \in 1..Len(o.items) : PrototypeIntact(o.items[n])
    ELSE IF o.t = "object"
    THEN /\ o.proto = ObjectPrototype
         /\ \A n \in 1..Len(o.props) : PrototypeIntact(o.props[n].value)
    ELSE TRUE

\* C16, as claimed: sanitizeKey returns a blocked key for no key of the data, so
\* sanitizeObject assigns under no blocked key and the prototype of every object
\* it returns is untouched
C16_NoBlockedKeyAssigned ==
    pc = "returned" =>
        /\ \A k \in OwnKeys(rawData) :
               LET safeKey == sanitizeKey(k)
               IN  safeKey # Null => ~includes(blockedKeys, safeKey.s)
        /\ \A k \in assignedKeys : ~includes(blockedKeys, k)
        /\ PrototypeIntact(sanitized)

-----------------------------------------------------------------------------
(* The overlay's lock, checked under SpecOverlayLock *)

\* C17, as claimed: no changePosition and no changeSize is issued while isLocked
\* is true, also when the lock is turned on during a drag or a resize
C17_NoMoveWhileLocked ==
    lastWindowCall.api # "none" => ~lastWindowCall.locked

-----------------------------------------------------------------------------
(* Validation of the stored settings, checked under SpecStorage *)

KeysOf(o) == {o.props[n].key : n \in 1..Len(o.props)}

\* the object that the stored value holds, when it holds one
StoredSettings ==
    IF TypeOf(storedValue) = "string"
    THEN IF JSONparse(storedValue).threw THEN Undefined ELSE JSONparse(storedValue).value
    ELSE storedValue

\* C20: getSettings resolves, for every stored value, to an object with exactly the
\* keys of DEFAULT_SETTINGS in which every key with a validation rule holds a valid
\* value; each value is the stored one when that one is valid, else the default
C20_ResolvedSettingsValid ==
    pc = "resolved" =>
        LET stored == StoredSettings
        IN  /\ resolved.t = "object"
            /\ Len(resolved.props) = Len(DEFAULT_SETTINGS.props)
            /\ KeysOf(resolved) = KeysOf(DEFAULT_SETTINGS)
            /\ resolved.proto = ObjectPrototype
            /\ \A k \in KeysOf(DEFAULT_SETTINGS) :
                   LET v == GetProperty(resolved, k)
                   IN  /\ ~ValidationThrows(k, v)
                       /\ isValidSettingValue(k, v)
                       /\ \/ v = GetProperty(DEFAULT_SETTINGS, k)
                          \/ /\ getSucceeds
                             /\ HasProperty(stored, k)
                             /\ v = CopyOf(GetProperty(stored, k))

\* a resolved call on the JSON text of an object that holds an out-of-range opacity
\* and a key that is no setting: the opacity is the default, the key is gone
C20_Witness ==
    /\ pc = "resolved"
    /\ getSucceeds
    /\ TypeOf(storedValue) = "string"
    /\ HasProperty(StoredSettings, "overlayOpacity")
    /\ GetProperty(StoredSettings, "overlayOpacity") = JsNumber(101)
    /\ HasProperty(StoredSettings, ExtraKey)
    /\ GetProperty(resolved, "overlayOpacity") = JsNumber(85)
    /\ ~HasProperty(resolved, ExtraKey)

-----------------------------------------------------------------------------
(* Hotkeys and game events of the background, checked under SpecBackground *)

\* C18: a save made for increase_transparency never raises the stored overlayOpacity,
\* and a save made for decrease_transparency never lowers it
C18_TransparencyHotkeysDirection ==
    /\ lastSet.hotkey = "increase_transparency" => lastSet.after <= lastSet.before
    /\ lastSet.hotkey = "decrease_transparency" => lastSet.after >= lastSet.before

\* C19: with autoShowOverlay stored as false, neither a game launch nor a game
\* phase restores the overlay window: only the toggle_overlay hotkey does
C19_NoAutoShowWhenDisabled ==
    ~IsTruthy(GetProperty(settingsNow, "autoShowOverlay")) => lastOpen \in {"none", "hotkey"}

-----------------------------------------------------------------------------
(* The rate limiter, checked under SpecLimiter *)

\* the calls allowed with a clock value in [t - windowMs, t]
AllowedInWindow(t) ==
    Cardinality({n \in 1..Len(allowedAt) : allowedAt[n] >= t - windowMs /\ allowedAt[n] <= t})

\* C21: at every time t at most maxRequests allowed calls have a clock value in
\* [t - windowMs, t]; a call is refused only when maxRequests allowed calls are in
\* its window, so that refused calls do not count, and the array holds allowed
\* calls only
C21_RateBounded ==
    /\ \A t \in 0..(MaxClock + MaxWindow) : AllowedInWindow(t) <= maxRequests
    /\ callsLeft < MaxCalls => (lastAllowed.returned <=> lastAllowed.before < maxRequests)
    /\ \A n \in 1..Len(requests) : \E k \in 1..Len(allowedAt) : allowedAt[k] = requests[n]
    /\ Len(requests) <= Len(allowedAt)

\* a call refused in a full window, then a call allowed once the window has moved
\* past the oldest allowed call, whatever was refused in between
C21_Witness ==
    /\ maxRequests = MaxRequests /\ windowMs = 1
    /\ lastAllowed.returned /\ lastAllowed.now = 2
    /\ Len(allowedAt) = MaxRequests + 1
    /\ callsLeft = MaxCalls - MaxRequests - 2
    /\ allowedAt[1] = 0 /\ allowedAt[MaxRequests] = 0

-----------------------------------------------------------------------------
(* The champion-select sanitizer, checked under SpecChampSelect *)

\* an integer in 0..10000
IsId(v) == v # Null /\ v # Undefined /\ v.t = "number" /\ v.n \in 0..10000

\* the keys of sanitized records that hold cell, champion and spell ids
IdKeys == {"cellId", "championId", "championPickIntent", "spell1Id", "spell2Id", "actorCellId"}

\* every id of the records of the array is an integer in 0..10000
IdsValid(arr) ==
    \A k \in 1..Len(arr.items) :
        \A q \in 1..Len(arr.items[k].props) :
            arr.items[k].props[q].key \in IdKeys => IsId(arr.items[k].props[q].value)

\* the sanitised value keeps the limits of the claim
Sanitised(value) ==
    /\ Len(GetProperty(value, "myTeam").items) <= 5
    /\ Len(GetProperty(value, "theirTeam").items) <= 5
    /\ Len(GetProperty(value, "actions").items) <= 50
    /\ IsId(GetProperty(value, "localPlayerCellId"))
    /\ IdsValid(GetProperty(value, "myTeam"))
    /\ IdsValid(GetProperty(value, "theirTeam"))
    /\ IdsValid(GetProperty(value, "actions"))
    /\ \A side \in {"myTeam", "theirTeam"} :
           LET kept == GetProperty(GetProperty(value, "bans"), side).items
           IN  Len(kept) <= 5 /\ \A k \in 1..Len(kept) : IsId(kept[k]) /\ kept[k].n > 0

\* C22: for every argument sanitizeChampSelectData returns: null for a value that
\* is no object, and for an object a value with at most 5 players a team, 5 bans a
\* side and 50 actions, every id an integer in 0..10000 and every ban above 0
C22_ChampSelectSanitised ==
    pc = "returned" =>
        /\ ~champSelect.threw
        /\ IF IsTruthy(sessionData) /\ TypeOf(sessionData) = "object"
           THEN Sanitised(champSelect.value)
           ELSE champSelect.value = Null

\* the same for the calls that return
ReturnedChampSelectSanitised ==
    (pc = "returned" /\ ~champSelect.threw) =>
        IF IsTruthy(sessionData) /\ TypeOf(sessionData) = "object"
        THEN Sanitised(champSelect.value)
        ELSE champSelect.value = Null

-----------------------------------------------------------------------------
(* Reconnecting and disconnecting, checked under SpecLcu *)

\* C23: reconnectAttempts never passes maxReconnectAttempts, and it counts the
\* timers scheduled since the construction or the last successful connect: no
\* timer is scheduled at the maximum, and nothing but a successful connect
\* takes the counter back to 0
C23_ReconnectsBounded ==
    /\ reconnectAttempts <= maxReconnectAttempts
    /\ scheduledSinceConnected = reconnectAttempts

\* ten reconnects scheduled and failed: the chain has stopped
C23_Witness ==
    /\ reconnectAttempts = maxReconnectAttempts
    /\ scheduledSinceConnected = maxReconnectAttempts
    /\ reconnectTimers = 0 /\ connects = <<>>
    /\ ~isConnected

\* C24: from disconnect() to the next connect() of the owner the service stays
\* disconnected: isConnected false, no polling interval, no socket
C24_StaysDisconnected ==
    disconnected => ~isConnected /\ pollingInterval = Null /\ ws = 0
====
